---- MODULE Spec2Model ----
(***************************************************************************)
(* The download coordinator of chrome/browser/download/download_manager.cc *)
(* (DownloadManager) as a state machine.  One action per handler that runs *)
(* on the UI thread or on the FILE thread; the messages posted between the *)
(* threads, the pending journal callbacks and the pending dialogs are      *)
(* state.  Handlers are written as operators from a manager state m (a     *)
(* record of the member variables) to the manager state they leave, so     *)
(* that a handler that calls another one is the composition of the two.    *)
(*                                                                         *)
(* DCHECKs exist only in debug builds (ndebug = FALSE), where a failing    *)
(* one aborts the process; CHECKs abort in every build.                    *)
(***************************************************************************)
EXTENDS Integers, Sequences, FiniteSets, TLC

\* ------------------------------------------------------------------ bounds
MaxDownloads == 1
MaxHistory == 1
MaxBytes == 1
MaxRand == 1
MaxUniqueFiles == 1

\* ------------------------------------------------------------ identifiers
kUninitializedHandle == -1
NULL == 0
Ids == 1 .. MaxDownloads
Entries == 1 .. MaxHistory
Sizes == 1 .. MaxBytes
\* net::OK, net::ERR_CONNECTION_CLOSED and one other error
Errors == {"OK", "ERR_CONNECTION_CLOSED", "ERR_FAILED"}

\* The handle the journal assigns to the entry of a network download: the
\* replayed entries hold the handles 1 .. MaxHistory.
JournalHandle(id) == MaxHistory + id

\* The address of the DownloadItem allocated for a network download / for a
\* journal entry (objects are never re-allocated at an address in use).
ItemOfId(id) == id
ItemOfEntry(j) == MaxDownloads + j

\* ------------------------------------------------------------------- maps
EmptyMap == [x \in {} |-> NULL]
Has(f, k) == k \in DOMAIN f
Put(f, k, v) == [x \in (DOMAIN f) \cup {k} |-> IF x = k THEN v ELSE f[x]]
Erase(f, k) == [x \in (DOMAIN f) \ {k} |-> f[x]]
Range(f) == {f[x] : x \in DOMAIN f}

\* ------------------------------------------------------------------ paths
\* A path is a directory, a base name, the number appended to the name
\* (0: none) and whether it carries the in-progress (.crdownload) suffix.
EmptyPath == [dir |-> "", base |-> "", uniq |-> 0, cr |-> FALSE]
MkPath(dir, base) == [dir |-> dir, base |-> base, uniq |-> 0, cr |-> FALSE]
GetCrDownloadPath(p) == [p EXCEPT !.cr = TRUE]
AppendNumberToPath(p, n) == [p EXCEPT !.uniq = n]
UnconfirmedPath(dir, k) == [dir |-> dir, base |-> "Unconfirmed", uniq |-> k, cr |-> TRUE]

\* The DownloadStateInfo handed from step to step.
DefaultInfo ==
  [prompt |-> FALSE, force |-> FALSE, is_dangerous_file |-> FALSE,
   is_dangerous_url |-> FALSE, suggested_path |-> EmptyPath, path_uniquifier |-> 0]

VARIABLES
  ndebug,                  \* the build: TRUE when DCHECKs are compiled out
  aborted,                 \* "" or the assertion that ended the process
  profile_,                \* "NULL" until Init(profile)
  shutdown_needed_,
  download_history_,       \* "null" | "live" (scoped_ptr<DownloadHistory>)
  items,                   \* the heap: address -> DownloadItem
  downloads_,              \* the owning set of addresses
  active_downloads_,       \* download id -> address
  in_progress_,            \* download id -> address
  history_downloads_,      \* db handle -> address
  save_page_as_downloads_, \* debug builds only
  next_fake_db_handle_,
  last_download_path_,
  pipe,                    \* per id: the path-resolution step in flight
  info,                    \* per id: the DownloadStateInfo in flight
  journal,                 \* ids with an AddEntry callback in flight
  rename_pending,          \* ids with a final rename in flight
  query_pending,           \* the Load callback is in flight
  files,                   \* paths that exist on disk
  completing,              \* per id: times OnDownloadCompleting was entered
  next_id,                 \* next download id of the network layer
  pages_saved,             \* pages SavePackage has started to save
  response_sent,           \* ids whose completion event was delivered
  tries                    \* per id: names the running probe has found taken

vars == <<ndebug, aborted, profile_, shutdown_needed_, download_history_, items,
          downloads_, active_downloads_, in_progress_, history_downloads_,
          save_page_as_downloads_, next_fake_db_handle_, last_download_path_,
          pipe, info, journal, rename_pending, query_pending, files,
          completing, next_id, pages_saved, response_sent, tries>>

\* The member variables and message queues a handler works on, and the calls
\* it has made to its collaborators since it was entered (calls).
Cur == [aborted |-> aborted,
        profile |-> profile_,
        shutdown_needed |-> shutdown_needed_,
        download_history |-> download_history_,
        items |-> items,
        downloads |-> downloads_,
        active |-> active_downloads_,
        in_progress |-> in_progress_,
        history |-> history_downloads_,
        save_page |-> save_page_as_downloads_,
        next_fake |-> next_fake_db_handle_,
        last_path |-> last_download_path_,
        pipe |-> pipe,
        info |-> info,
        journal |-> journal,
        rename |-> rename_pending,
        query_pending |-> query_pending,
        files |-> files,
        completing |-> completing,
        next_id |-> next_id,
        pages_saved |-> pages_saved,
        response_sent |-> response_sent,
        calls |-> <<>>]

\* The state after construction, and the state of a process that has ended
\* on the failed assertion or fault `what`: its memory is gone.
Fresh(what) ==
  [aborted |-> what,
   profile |-> "NULL",
   shutdown_needed |-> FALSE,
   download_history |-> "null",
   items |-> EmptyMap,
   downloads |-> {},
   active |-> EmptyMap,
   in_progress |-> EmptyMap,
   history |-> EmptyMap,
   save_page |-> {},
   next_fake |-> kUninitializedHandle - 1,
   last_path |-> "",
   pipe |-> [id \in Ids |-> "none"],
   info |-> [id \in Ids |-> DefaultInfo],
   journal |-> {},
   rename |-> {},
   query_pending |-> FALSE,
   files |-> {},
   completing |-> [id \in Ids |-> 0],
   next_id |-> 1,
   pages_saved |-> 0,
   response_sent |-> {},
   calls |-> <<>>]

\* The handler leaves the state m; a handler that aborted leaves no state.
Set(m) ==
  \E x \in {IF m.aborted = "" THEN m ELSE Fresh(m.aborted)} :
     /\ aborted' = x.aborted
     /\ profile_' = x.profile
     /\ shutdown_needed_' = x.shutdown_needed
     /\ download_history_' = x.download_history
     /\ items' = x.items
     /\ downloads_' = x.downloads
     /\ active_downloads_' = x.active
     /\ in_progress_' = x.in_progress
     /\ history_downloads_' = x.history
     /\ save_page_as_downloads_' = x.save_page
     /\ next_fake_db_handle_' = x.next_fake
     /\ last_download_path_' = x.last_path
     /\ pipe' = x.pipe
     /\ info' = x.info
     /\ journal' = x.journal
     /\ rename_pending' = x.rename
     /\ query_pending' = x.query_pending
     /\ files' = x.files
     /\ completing' = x.completing
     /\ next_id' = x.next_id
     /\ pages_saved' = x.pages_saved
     /\ response_sent' = x.response_sent
     /\ UNCHANGED <<ndebug, tries>>

Call(m, name, arg) == [m EXCEPT !.calls = Append(@, <<name, arg>>)]
Abort(m, what) == [m EXCEPT !.aborted = what]
Ok(m) == m.aborted = ""
\* F applied to m unless the process has aborted.
Then(m, F(_)) == IF Ok(m) THEN F(m) ELSE m
\* DCHECK(cond): aborts a debug build when cond is false.
DFails(cond) == ~ndebug /\ ~cond
\* A pointer that cannot be dereferenced: NULL, or the address of a deleted
\* item.  Dereferencing NULL faults.  Dereferencing a deleted item is
\* undefined: Fault is the outcome in which the process faults, and the
\* handler that can meet such a pointer (UpdateDownload) lists the others.
Bad(m, d) == d \notin DOMAIN m.items
Fault(m, d) == Abort(m, IF d = NULL THEN "null dereference" ELSE "use after free")

\* --------------------------------------------------------- the DownloadItem
\* A DownloadItem as the network layer's CreateDownloadItem constructs it.
NewDownloadItem(id) ==
  [id |-> id, db_handle |-> kUninitializedHandle, state |-> "IN_PROGRESS",
   safety_state |-> "SAFE", all_data_saved |-> FALSE, received_bytes |-> 0,
   last_os_error |-> "OK", full_path |-> EmptyPath, start_time |-> MaxHistory + id,
   prompt |-> FALSE, is_dangerous |-> FALSE]

\* A DownloadItem reconstructed from journal entry j, which was persisted in
\* state st.  Entries are replayed in ascending start-time order.
HistoryDownloadItem(j, st) ==
  [id |-> -j, db_handle |-> j, state |-> st,
   safety_state |-> "SAFE", all_data_saved |-> (st = "COMPLETE"), received_bytes |-> 1,
   last_os_error |-> "OK", full_path |-> [MkPath("default", "old") EXCEPT !.uniq = j],
   start_time |-> j,
   prompt |-> FALSE, is_dangerous |-> FALSE]

IsInProgress(item) == item.state = "IN_PROGRESS"
IsPartialDownload(item) == item.state = "IN_PROGRESS"
IsCancelled(item) == item.state = "CANCELLED"
IsComplete(item) == item.state = "COMPLETE"
IsInterrupted(item) == item.state = "INTERRUPTED"
\* DownloadStateInfo::IsDangerous
IsDangerous(st) == st.is_dangerous_url \/ st.is_dangerous_file
\* Of its state_info_ an item keeps what is read again: the prompt flag and
\* IsDangerous(), which before the file check is is_dangerous_url.
ItemIsDangerous(item) == item.is_dangerous
\* The final rename is needed when the file carries an in-progress name.
NeedsRename(item) == item.full_path.cr

\* ------------------------------------------------------ journal (outbound)
\* A call through download_history_ (and download_prefs_, which Shutdown
\* resets with it) once Shutdown has reset the pointer is a null dereference.
HistoryGone(m) == m.download_history = "null"
NullHistory(m) == Abort(m, "null download_history_")

UpdateEntry(m, d) ==
  IF HistoryGone(m) THEN NullHistory(m) ELSE Call(m, "UpdateEntry", d)

NotifyModelChanged(m) == Call(m, "ModelChanged", 0)

\* ------------------------------------------------------------- completion
\* The item of history_downloads_ with this download id, NULL when none: the
\* map is iterated in key order.
GetDownloadItem(m, download_id) ==
  LET hs == {h \in DOMAIN m.history : m.items[m.history[h]].id = download_id}
  IN IF hs = {} THEN NULL
     ELSE m.history[CHOOSE h \in hs : \A g \in hs : h <= g]

\* The journal is updated but the id stays in active_downloads_.
DownloadCompleted_KeepActive(m, download_id) ==
  LET download == GetDownloadItem(m, download_id)
  IN IF DFails(download # NULL) THEN Abort(m, "DCHECK(download)")
     ELSE IF download = NULL THEN Abort(m, "null download")
     ELSE UpdateEntry(m, download)
DownloadCompleted(m, download_id) ==
  LET download == GetDownloadItem(m, download_id)
  IN IF DFails(download # NULL) THEN Abort(m, "DCHECK(download)")
     ELSE IF download = NULL THEN Abort(m, "null download")
     ELSE Then(UpdateEntry(m, download),
               LAMBDA x : [x EXCEPT !.active = Erase(@, download_id)])

\* DownloadItem::Completed
Completed(m, d) ==
  DownloadCompleted([m EXCEPT !.items[d].state = "COMPLETE"], m.items[d].id)

\* DownloadItem::OnDownloadCompleting: the final rename is done on the FILE
\* thread and answered by OnDownloadRenamedToFinalName; without a rename the
\* item completes at once.
OnDownloadCompleting(m, d) ==
  LET id == m.items[d].id
      m1 == IF id \in DOMAIN m.completing
              THEN [m EXCEPT !.completing[id] = IF @ < 2 THEN @ + 1 ELSE @]
              ELSE m
  IN IF NeedsRename(m.items[d])
       THEN [m1 EXCEPT !.rename = @ \cup {id}]
       ELSE Completed(m1, d)

\* The guard without its test of the durable handle.
IsDownloadReadyForCompletion_NoHandle(m, d) ==
  /\ m.items[d].all_data_saved
  /\ m.items[d].safety_state # "DANGEROUS"
  /\ Has(m.active, m.items[d].id)

IsDownloadReadyForCompletion(m, d) ==
  /\ m.items[d].all_data_saved
  /\ m.items[d].safety_state # "DANGEROUS"
  /\ Has(m.active, m.items[d].id)
  /\ m.items[d].db_handle # kUninitializedHandle

MaybeCompleteDownload(m, d) ==
  IF ~IsDownloadReadyForCompletion(m, d) THEN m
  ELSE LET id == m.items[d].id
       IN IF DFails(Has(m.in_progress, id))
            THEN Abort(m, "DCHECK_EQ(1u, in_progress_.count(download->id()))")
          ELSE IF DFails(Has(m.history, m.items[d].db_handle))
            THEN Abort(m, "DCHECK_EQ(1u, history_downloads_.count(download->db_handle()))")
          ELSE Then(UpdateEntry([m EXCEPT !.in_progress = Erase(@, id)], d),
                    LAMBDA x : OnDownloadCompleting(x, d))

\* ------------------------------------------------- cancellation and errors
DownloadCancelledInternal(m, download_id) ==
  Call(Call(m, "CancelRequest", download_id), "CancelDownload", download_id)

\* The file is cleaned up only together with the journal update.
DownloadCancelled_CleanupWithJournal(m, download_id) ==
  IF ~Has(m.in_progress, download_id) THEN m
  ELSE IF Bad(m, m.in_progress[download_id]) THEN Fault(m, m.in_progress[download_id])
  ELSE LET d == m.in_progress[download_id]
       IN IF m.items[d].db_handle # kUninitializedHandle
            THEN Then(UpdateEntry([m EXCEPT !.in_progress = Erase(@, download_id),
                                            !.active = Erase(@, download_id)], d),
                      LAMBDA x : DownloadCancelledInternal(x, download_id))
            ELSE m

\* The item tells the coordinator that the user cancelled it.
DownloadCancelled(m, download_id) ==
  IF ~Has(m.in_progress, download_id) THEN m
  ELSE IF Bad(m, m.in_progress[download_id]) THEN Fault(m, m.in_progress[download_id])
  ELSE LET d == m.in_progress[download_id]
           m1 == IF m.items[d].db_handle # kUninitializedHandle
                   THEN UpdateEntry([m EXCEPT !.in_progress = Erase(@, download_id),
                                              !.active = Erase(@, download_id)], d)
                   ELSE m
       IN Then(m1, LAMBDA x : DownloadCancelledInternal(x, download_id))

\* DownloadItem::Cancel
ItemCancel(m, d, update_history) ==
  IF ~IsPartialDownload(m.items[d]) THEN m
  ELSE LET m1 == [m EXCEPT !.items[d].state = "CANCELLED"]
       IN IF update_history THEN DownloadCancelled(m1, m.items[d].id) ELSE m1

\* DownloadItem::Interrupted
Interrupted(m, d, size, os_error) ==
  IF ~IsInProgress(m.items[d]) THEN m
  ELSE [m EXCEPT !.items[d].state = "INTERRUPTED",
                 !.items[d].last_os_error = os_error,
                 !.items[d].received_bytes = size]

OnDownloadError(m, download_id, size, os_error) ==
  IF ~Has(m.active, download_id) THEN m
  ELSE IF Bad(m, m.active[download_id]) THEN Fault(m, m.active[download_id])
  ELSE LET d == m.active[download_id]
           m0 == Interrupted(m, d, size, os_error)
           m1 == IF m0.items[d].db_handle # kUninitializedHandle
                   THEN UpdateEntry([m0 EXCEPT !.in_progress = Erase(@, download_id),
                                               !.active = Erase(@, download_id)], d)
                   ELSE m0
       IN Then(m1, LAMBDA x : Call(x, "CancelDownload", download_id))

UpdateDownload(m, download_id, size) ==
  IF ~Has(m.active, download_id) THEN m
  ELSE IF Bad(m, m.active[download_id]) THEN Fault(m, m.active[download_id])
  ELSE LET d == m.active[download_id]
       IN IF IsInProgress(m.items[d])
            THEN UpdateEntry([m EXCEPT !.items[d].received_bytes = size], d)
            ELSE m

\* What UpdateDownload can leave.  An entry of active_downloads_ that points
\* to a deleted item makes the call undefined: the process faults, or the
\* stale state is read and nothing of the coordinator changes.
UpdateDownloadOutcomes(m, download_id, size) ==
  IF Has(m.active, download_id) /\ m.active[download_id] # NULL
       /\ Bad(m, m.active[download_id])
    THEN {UpdateDownload(m, download_id, size), m}
    ELSE {UpdateDownload(m, download_id, size)}

OnAllDataSaved(m, download_id, size) ==
  IF ~Has(m.active, download_id) THEN m
  ELSE IF Bad(m, m.active[download_id]) THEN Fault(m, m.active[download_id])
  ELSE LET d == m.active[download_id]
       IN IF DFails(~m.items[d].all_data_saved)
            THEN Abort(m, "DCHECK(!all_data_saved_)")
            ELSE MaybeCompleteDownload(
                   [m EXCEPT !.items[d].all_data_saved = TRUE,
                             !.items[d].received_bytes = size], d)

\* Only the code 0 is taken for success.
OnResponseCompleted_ClosedIsError(m, download_id, size, os_error) ==
  IF os_error = "OK"
    THEN OnAllDataSaved(m, download_id, size)
    ELSE OnDownloadError(m, download_id, size, os_error)

\* The completion event of the network layer, with its error code.
OnResponseCompleted(m, download_id, size, os_error) ==
  IF os_error = "OK" \/ os_error = "ERR_CONNECTION_CLOSED"
    THEN OnAllDataSaved(m, download_id, size)
    ELSE OnDownloadError(m, download_id, size, os_error)

\* --------------------------------------------------------- path resolution
GeneratedName == "report.pdf"
ForcedPath == MkPath("forced", "forced.bin")
ChosenPath == MkPath("user", "chosen.pdf")
DangerLevels == {"NotDangerous", "AllowOnUserGesture", "Dangerous"}

\* What CheckVisitedReferrerBeforeDone reads of the request and of the
\* preferences: the request's save-as flag, whether it carries a forced file
\* name, whether its URL or mime type is an extension's, its user gesture,
\* whether an ExtensionService exists and whether it finds the download to
\* come from the gallery, the PromptForDownload preference,
\* IsDownloadPathManaged, whether the generated name has an extension,
\* whether that is the extension of an extension package, whether the
\* preferences auto-open that extension, and the danger level of the name.
ResolverInputs ==
  {in \in [save_as : BOOLEAN, force : BOOLEAN, ext_mime : BOOLEAN, gesture : BOOLEAN,
           service : BOOLEAN, gallery : BOOLEAN, pref_prompt : BOOLEAN,
           managed : BOOLEAN, has_ext : BOOLEAN, is_crx : BOOLEAN,
           auto_open : BOOLEAN, level : DangerLevels] :
     in.is_crx => in.has_ext}

GetActiveDownloadItem(m, download_id) ==
  IF ~Has(m.active, download_id)
    THEN IF ~ndebug
           THEN [m |-> Abort(m, "DCHECK(ContainsKey(active_downloads_, download_id))"),
                 download |-> NULL]
           \* operator[] default-constructs the missing entry
           ELSE [m |-> [m EXCEPT !.active = Put(@, download_id, NULL)],
                 download |-> NULL]
  ELSE IF DFails(m.active[download_id] # NULL)
    THEN [m |-> Abort(m, "DCHECK(download != NULL)"), download |-> NULL]
  ELSE [m |-> m, download |-> m.active[download_id]]

\* The message of step `step` for this id has been consumed.
Consume(m, download_id) ==
  [m EXCEPT !.pipe[download_id] = "none", !.info[download_id] = DefaultInfo]
Post(m, download_id, step, st) ==
  [m EXCEPT !.pipe[download_id] = step, !.info[download_id] = st]

\* The verdict on the URL is not asked for: the referrer check is answered
\* next.
StartDownload_SkipVerdict(m, download_id) ==
  LET g == GetActiveDownloadItem(Consume(m, download_id), download_id)
  IN IF ~Ok(g.m) \/ g.download = NULL THEN g.m
     ELSE Post(g.m, download_id, "CheckVisitedReferrerBeforeDone", DefaultInfo)

\* StartDownload asks the safe-browsing client for its verdict on the URL.
StartDownload(m, download_id) ==
  LET g == GetActiveDownloadItem(Consume(m, download_id), download_id)
  IN IF ~Ok(g.m) \/ g.download = NULL THEN g.m
     ELSE Post(g.m, download_id, "CheckDownloadUrlDone", DefaultInfo)

CheckDownloadUrlDone(m, download_id, is_dangerous_url) ==
  LET g == GetActiveDownloadItem(Consume(m, download_id), download_id)
      d == g.download
  IN IF ~Ok(g.m) \/ d = NULL THEN g.m
     ELSE IF Bad(g.m, d) THEN Fault(g.m, d)
     ELSE IF HistoryGone(g.m) THEN NullHistory(g.m)
     ELSE LET m1 == IF is_dangerous_url
                      THEN [g.m EXCEPT !.items[d].is_dangerous = TRUE]
                      ELSE g.m
          IN Post(Call(m1, "CheckVisitedReferrerBefore", download_id),
                  download_id, "CheckVisitedReferrerBeforeDone", DefaultInfo)

\* An extension package is opened by no preference.
ShouldOpenFileBasedOnExtension(in) ==
  IF ~in.has_ext THEN FALSE
  ELSE IF in.is_crx THEN FALSE
  ELSE in.auto_open

\* The middle level is dangerous only without gesture and without visit.
IsDangerousFile_GestureAndVisit(in, is_extension_install, visited_referrer_before) ==
  IF in.level = "Dangerous"
    THEN ~(ShouldOpenFileBasedOnExtension(in) /\ in.gesture)
  ELSE IF in.level = "AllowOnUserGesture"
          /\ (~in.gesture /\ ~visited_referrer_before)
    THEN TRUE
  ELSE IF is_extension_install THEN ~in.service \/ ~in.gallery
  ELSE FALSE

\* The dangerous-file verdict by danger level, gesture, visit and origin.
IsDangerousFile(in, is_extension_install, visited_referrer_before) ==
  IF in.level = "Dangerous"
    THEN ~(ShouldOpenFileBasedOnExtension(in) /\ in.gesture)
  ELSE IF in.level = "AllowOnUserGesture" /\ (~in.gesture \/ ~visited_referrer_before)
    THEN TRUE
  ELSE IF is_extension_install
    THEN ~in.service \/ ~in.gallery
  ELSE FALSE

\* The file is classified by its extension also when the name is forced.
ResolvePath_ForcedClassified(in, is_dangerous_url, visited_referrer_before, last_path) ==
  LET is_extension_install == ~in.save_as /\ in.ext_mime
      prompt == IF ~in.force
                  THEN IF in.managed THEN FALSE
                       ELSE IF in.pref_prompt /\ ~is_extension_install
                               /\ ~ShouldOpenFileBasedOnExtension(in)
                              THEN TRUE
                       ELSE in.save_as
                  ELSE in.save_as
      dir == IF prompt /\ last_path # "" THEN last_path ELSE "default"
  IN [prompt |-> prompt,
      force |-> in.force,
      is_dangerous_file |->
        IF ~prompt
          THEN IsDangerousFile(in, is_extension_install, visited_referrer_before)
          ELSE FALSE,
      is_dangerous_url |-> is_dangerous_url,
      suggested_path |-> IF in.force THEN ForcedPath ELSE MkPath(dir, GeneratedName),
      path_uniquifier |-> 0]
\* The preference prompts for extension installs and auto-opened files too.
ResolvePath_PrefAlways(in, is_dangerous_url, visited_referrer_before, last_path) ==
  LET is_extension_install == ~in.save_as /\ in.ext_mime
      prompt == IF ~in.force
                  THEN IF in.managed THEN FALSE
                       ELSE IF in.pref_prompt THEN TRUE
                       ELSE in.save_as
                  ELSE in.save_as
      dir == IF prompt /\ last_path # "" THEN last_path ELSE "default"
  IN [prompt |-> prompt,
      force |-> in.force,
      is_dangerous_file |->
        IF ~prompt /\ ~in.force
          THEN IsDangerousFile(in, is_extension_install, visited_referrer_before)
          ELSE FALSE,
      is_dangerous_url |-> is_dangerous_url,
      suggested_path |-> IF in.force THEN ForcedPath ELSE MkPath(dir, GeneratedName),
      path_uniquifier |-> 0]

\* A managed download directory leaves the prompt flag as it is.
ResolvePath_ManagedIgnored(in, is_dangerous_url, visited_referrer_before, last_path) ==
  LET is_extension_install == ~in.save_as /\ in.ext_mime
      prompt == IF ~in.force
                  THEN IF in.pref_prompt /\ ~is_extension_install
                            /\ ~ShouldOpenFileBasedOnExtension(in)
                         THEN TRUE
                       ELSE in.save_as
                  ELSE in.save_as
      dir == IF prompt /\ last_path # "" THEN last_path ELSE "default"
  IN [prompt |-> prompt,
      force |-> in.force,
      is_dangerous_file |->
        IF ~prompt /\ ~in.force
          THEN IsDangerousFile(in, is_extension_install, visited_referrer_before)
          ELSE FALSE,
      is_dangerous_url |-> is_dangerous_url,
      suggested_path |-> IF in.force THEN ForcedPath ELSE MkPath(dir, GeneratedName),
      path_uniquifier |-> 0]
\* The DownloadStateInfo that CheckVisitedReferrerBeforeDone posts to the FILE
\* thread.
ResolvePath(in, is_dangerous_url, visited_referrer_before, last_path) ==
  LET is_extension_install == ~in.save_as /\ in.ext_mime
      prompt == IF ~in.force
                  THEN IF in.managed THEN FALSE
                       ELSE IF in.pref_prompt /\ ~is_extension_install
                               /\ ~ShouldOpenFileBasedOnExtension(in)
                              THEN TRUE
                       ELSE in.save_as
                  ELSE in.save_as
      dir == IF prompt /\ last_path # "" THEN last_path ELSE "default"
  IN [prompt |-> prompt,
      force |-> in.force,
      is_dangerous_file |->
        IF ~prompt /\ ~in.force
          THEN IsDangerousFile(in, is_extension_install, visited_referrer_before)
          ELSE FALSE,
      is_dangerous_url |-> is_dangerous_url,
      suggested_path |-> IF in.force THEN ForcedPath ELSE MkPath(dir, GeneratedName),
      path_uniquifier |-> 0]

\* The directories last_download_path_ can hold: none, or that of a path
\* chosen in the dialog.
LastPaths == {"", ChosenPath.dir}
\* The resolutions CheckVisitedReferrerBeforeDone can come to, by the verdict
\* on the URL and by last_download_path_, over all it reads of the request
\* and of the preferences.
Resolutions ==
  [url \in BOOLEAN, last \in LastPaths |->
     {ResolvePath(in, url, visited, last) :
        in \in ResolverInputs, visited \in BOOLEAN}]

\* The referrer check is answered: the path is resolved to st.
CheckVisitedReferrerBeforeDone(m, download_id, st) ==
  LET g == GetActiveDownloadItem(Consume(m, download_id), download_id)
      d == g.download
  IN IF ~Ok(g.m) \/ d = NULL THEN g.m
     ELSE IF Bad(g.m, d) THEN Fault(g.m, d)
     ELSE IF HistoryGone(g.m) THEN Abort(g.m, "null download_prefs_")
     ELSE Post(g.m, download_id, "CheckIfSuggestedPathExists", st)

\* download_util::GetUniquePathNumberWithCrDownload: the lowest number whose
\* suffixed name and in-progress name are both free, -1 when none is.
GetUniquePathNumberWithCrDownload(path, fs) ==
  LET free == {n \in 0 .. MaxUniqueFiles :
                 /\ AppendNumberToPath(path, n) \notin fs
                 /\ GetCrDownloadPath(AppendNumberToPath(path, n)) \notin fs}
  IN IF free = {} THEN -1 ELSE CHOOSE n \in free : \A k \in free : n <= k

\* The prober writes no placeholder file.
ProbePath_NoReservation(st, writable, rand, fs) ==
  LET dir == st.suggested_path.dir
      st1 == IF ~writable
               THEN [st EXCEPT !.prompt = TRUE, !.suggested_path.dir = "docs"]
               ELSE st
      st2 == IF IsDangerous(st1)
               THEN [st1 EXCEPT !.suggested_path = UnconfirmedPath(dir, rand)]
               ELSE LET u == IF ~st1.force
                               THEN GetUniquePathNumberWithCrDownload(st1.suggested_path, fs)
                               ELSE st1.path_uniquifier
                    IN IF u > 0
                         THEN [st1 EXCEPT !.suggested_path = AppendNumberToPath(@, u),
                                          !.path_uniquifier = 0]
                       ELSE IF u = -1
                         THEN [st1 EXCEPT !.prompt = TRUE, !.path_uniquifier = u]
                       ELSE [st1 EXCEPT !.path_uniquifier = u]
  IN [state |-> st2, files |-> fs]

\* The prober stores the suffix it appended.
ProbePath_KeepUniquifier(st, writable, rand, fs) ==
  LET dir == st.suggested_path.dir
      st1 == IF ~writable
               THEN [st EXCEPT !.prompt = TRUE, !.suggested_path.dir = "docs"]
               ELSE st
      st2 == IF IsDangerous(st1)
               THEN [st1 EXCEPT !.suggested_path = UnconfirmedPath(dir, rand)]
               ELSE LET u == IF ~st1.force
                               THEN GetUniquePathNumberWithCrDownload(st1.suggested_path, fs)
                               ELSE st1.path_uniquifier
                    IN IF u > 0
                         THEN [st1 EXCEPT !.suggested_path = AppendNumberToPath(@, u),
                                          !.path_uniquifier = u]
                       ELSE IF u = -1
                         THEN [st1 EXCEPT !.prompt = TRUE, !.path_uniquifier = u]
                       ELSE [st1 EXCEPT !.path_uniquifier = u]
      fs2 == IF ~st2.prompt /\ ~st2.force
               THEN IF IsDangerous(st2)
                      THEN fs \cup {st2.suggested_path}
                      ELSE fs \cup {GetCrDownloadPath(st2.suggested_path)}
               ELSE fs
  IN [state |-> st2, files |-> fs2]

\* The prober writes the placeholder of a safe download at the resolved path.
ProbePath_PlaceholderAtFinalName(st, writable, rand, fs) ==
  LET dir == st.suggested_path.dir
      st1 == IF ~writable
               THEN [st EXCEPT !.prompt = TRUE, !.suggested_path.dir = "docs"]
               ELSE st
      st2 == IF IsDangerous(st1)
               THEN [st1 EXCEPT !.suggested_path = UnconfirmedPath(dir, rand)]
               ELSE LET u == IF ~st1.force
                               THEN GetUniquePathNumberWithCrDownload(st1.suggested_path, fs)
                               ELSE st1.path_uniquifier
                    IN IF u > 0
                         THEN [st1 EXCEPT !.suggested_path = AppendNumberToPath(@, u),
                                          !.path_uniquifier = 0]
                       ELSE IF u = -1
                         THEN [st1 EXCEPT !.prompt = TRUE, !.path_uniquifier = u]
                       ELSE [st1 EXCEPT !.path_uniquifier = u]
      fs2 == IF ~st2.prompt /\ ~st2.force
               THEN fs \cup {st2.suggested_path}
               ELSE fs
  IN [state |-> st2, files |-> fs2]

\* The state and the file system CheckIfSuggestedPathExists leaves, on the
\* FILE thread; `rand` is the value base::RandInt returns in the iteration
\* that finds a free name.
ProbePath(st, writable, rand, fs) ==
  LET dir == st.suggested_path.dir
      st1 == IF ~writable
               THEN [st EXCEPT !.prompt = TRUE, !.suggested_path.dir = "docs"]
               ELSE st
      st2 == IF IsDangerous(st1)
               THEN [st1 EXCEPT !.suggested_path = UnconfirmedPath(dir, rand)]
               ELSE LET u == IF ~st1.force
                               THEN GetUniquePathNumberWithCrDownload(st1.suggested_path, fs)
                               ELSE st1.path_uniquifier
                    IN IF u > 0
                         THEN [st1 EXCEPT !.suggested_path = AppendNumberToPath(@, u),
                                          !.path_uniquifier = 0]
                       ELSE IF u = -1
                         THEN [st1 EXCEPT !.prompt = TRUE, !.path_uniquifier = u]
                       ELSE [st1 EXCEPT !.path_uniquifier = u]
      fs2 == IF ~st2.prompt /\ ~st2.force
               THEN IF IsDangerous(st2)
                      THEN fs \cup {st2.suggested_path}
                      ELSE fs \cup {GetCrDownloadPath(st2.suggested_path)}
               ELSE fs
  IN [state |-> st2, files |-> fs2]

\* DownloadItem::SetFileCheckResults
SetFileCheckResults(m, d, st) ==
  [m EXCEPT !.items[d].prompt = st.prompt,
            !.items[d].is_dangerous = IsDangerous(st),
            !.items[d].safety_state = IF IsDangerous(st) THEN "DANGEROUS" ELSE "SAFE"]

AddEntry(m, download_id) ==
  IF HistoryGone(m) THEN NullHistory(m)
  ELSE [Call(m, "AddEntry", download_id) EXCEPT !.journal = @ \cup {download_id}]

ContinueDownloadWithPath(m, d, chosen_file) ==
  LET download_id == m.items[d].id
  IN IF DFails(~Has(m.in_progress, download_id))
       THEN Abort(m, "DCHECK(!ContainsKey(in_progress_, download_id))")
     ELSE IF DFails(d \in m.downloads)
       THEN Abort(m, "DCHECK(ContainsKey(downloads_, download))")
     ELSE IF DFails(Has(m.active, download_id))
       THEN Abort(m, "DCHECK(ContainsKey(active_downloads_, download_id))")
     ELSE IF DFails(m.items[d].full_path = EmptyPath)
       THEN Abort(m, "DCHECK(download->full_path().empty())")
     ELSE LET download_path == IF ItemIsDangerous(m.items[d])
                                 THEN chosen_file
                                 ELSE GetCrDownloadPath(chosen_file)
              m1 == [m EXCEPT !.items[d].full_path = download_path,
                              !.in_progress = Put(@, download_id, d)]
          IN AddEntry(Call(m1, "RenameInProgressDownloadFile", download_id),
                      download_id)

\* The path is committed whether or not the resolution asks for a prompt.
OnPathExistenceAvailable_NoPrompt(m, download_id, new_state) ==
  LET g == GetActiveDownloadItem(Consume(m, download_id), download_id)
      d == g.download
  IN IF ~Ok(g.m) \/ d = NULL THEN g.m
     ELSE IF Bad(g.m, d) THEN Fault(g.m, d)
     ELSE ContinueDownloadWithPath(SetFileCheckResults(g.m, d, new_state), d,
                                   new_state.suggested_path)
OnPathExistenceAvailable(m, download_id, new_state) ==
  LET g == GetActiveDownloadItem(Consume(m, download_id), download_id)
      d == g.download
  IN IF ~Ok(g.m) \/ d = NULL THEN g.m
     ELSE IF Bad(g.m, d) THEN Fault(g.m, d)
     ELSE LET m1 == SetFileCheckResults(g.m, d, new_state)
          IN IF new_state.prompt
               THEN Post(Call(m1, "ChooseDownloadPath", download_id),
                         download_id, "dialog", DefaultInfo)
               ELSE ContinueDownloadWithPath(m1, d, new_state.suggested_path)

FileSelected(m, download_id, path) ==
  LET g == GetActiveDownloadItem(Consume(m, download_id), download_id)
      d == g.download
  IN IF ~Ok(g.m) \/ d = NULL THEN g.m
     ELSE IF Bad(g.m, d) THEN Fault(g.m, d)
     ELSE LET m1 == IF g.m.items[d].prompt
                      THEN [g.m EXCEPT !.last_path = path.dir]
                      ELSE g.m
          IN ContinueDownloadWithPath(m1, d, path)

FileSelectionCanceled(m, download_id) ==
  LET g == GetActiveDownloadItem(Consume(m, download_id), download_id)
      d == g.download
  IN IF ~Ok(g.m) \/ d = NULL THEN g.m
     ELSE DownloadCancelledInternal(g.m, download_id)

CreateDownloadItem(m, download_id) ==
  IF DFails(~Has(m.in_progress, download_id))
    THEN Abort(m, "DCHECK(!ContainsKey(in_progress_, download_id))")
  ELSE IF DFails(~Has(m.active, download_id))
    THEN Abort(m, "DCHECK(!ContainsKey(active_downloads_, download_id))")
  ELSE LET download == ItemOfId(download_id)
       IN [m EXCEPT !.items = Put(@, download, NewDownloadItem(download_id)),
                    !.downloads = @ \cup {download},
                    !.active = Put(@, download_id, download)]

\* ----------------------------------------------------------------- journal
\* DownloadHistory::GetNextFakeDbHandle: fake handles count down from the
\* one below the sentinel.
FirstFakeDbHandle == kUninitializedHandle - 1

\* The handle the journal reports is taken as it is, the sentinel too.
AddDownloadItemToHistory_NoSubstitute(m, d, db_handle) ==
  LET h == db_handle
  IN IF h = kUninitializedHandle
       THEN Abort(m, "CHECK_NE(DownloadHistory::kUninitializedHandle, db_handle)")
     ELSE IF DFails(m.items[d].db_handle = kUninitializedHandle)
       THEN Abort(m, "DCHECK(download->db_handle() == kUninitializedHandle)")
     ELSE IF DFails(~Has(m.history, h))
       THEN Abort(m, "DCHECK(!ContainsKey(history_downloads_, download->db_handle()))")
     ELSE [m EXCEPT !.items[d].db_handle = h,
                    !.history = Put(@, h, d)]

\* The handle is set on the item but the item is not entered in the map.
AddDownloadItemToHistory_NoMap(m, d, db_handle) ==
  LET h == IF db_handle = kUninitializedHandle THEN m.next_fake ELSE db_handle
  IN [m EXCEPT !.items[d].db_handle = h,
               !.next_fake = IF db_handle = kUninitializedHandle THEN @ - 1 ELSE @]

\* Every record the journal could not store gets the same fake handle.
AddDownloadItemToHistory_SameFake(m, d, db_handle) ==
  LET h == IF db_handle = kUninitializedHandle THEN FirstFakeDbHandle ELSE db_handle
  IN [m EXCEPT !.items[d].db_handle = h,
               !.history = Put(@, h, d)]

AddDownloadItemToHistory(m, d, db_handle) ==
  IF db_handle = kUninitializedHandle /\ HistoryGone(m) THEN NullHistory(m)
  ELSE LET h == IF db_handle = kUninitializedHandle THEN m.next_fake ELSE db_handle
           m1 == IF db_handle = kUninitializedHandle
                   THEN [m EXCEPT !.next_fake = @ - 1]
                   ELSE m
       IN IF h = kUninitializedHandle
            THEN Abort(m1, "CHECK_NE(DownloadHistory::kUninitializedHandle, db_handle)")
          ELSE IF DFails(m1.items[d].db_handle = kUninitializedHandle)
            THEN Abort(m1, "DCHECK(download->db_handle() == kUninitializedHandle)")
          ELSE IF DFails(~Has(m1.history, h))
            THEN Abort(m1, "DCHECK(!ContainsKey(history_downloads_, download->db_handle()))")
          ELSE [m1 EXCEPT !.items[d].db_handle = h,
                          !.history = Put(@, h, d)]

\* The handle is recorded but completion is not tried again.
OnCreateDownloadEntryComplete_NoRetry(m, download_id, db_handle) ==
  LET g == GetActiveDownloadItem([m EXCEPT !.journal = @ \ {download_id}], download_id)
      d == g.download
  IN IF ~Ok(g.m) \/ d = NULL THEN g.m
     ELSE IF Bad(g.m, d) THEN Fault(g.m, d)
     ELSE Then(AddDownloadItemToHistory(g.m, d, db_handle),
            LAMBDA x :
              LET m1 == NotifyModelChanged(Call(x, "OnStartDownload", d))
              IN IF IsInProgress(m1.items[d]) THEN m1
                 ELSE UpdateEntry([m1 EXCEPT !.in_progress = Erase(@, download_id),
                                             !.active = Erase(@, download_id)], d))

OnCreateDownloadEntryComplete(m, download_id, db_handle) ==
  LET g == GetActiveDownloadItem([m EXCEPT !.journal = @ \ {download_id}], download_id)
      d == g.download
  IN IF ~Ok(g.m) \/ d = NULL THEN g.m
     ELSE IF Bad(g.m, d) THEN Fault(g.m, d)
     ELSE Then(AddDownloadItemToHistory(g.m, d, db_handle),
            LAMBDA x :
              LET m1 == NotifyModelChanged(Call(x, "OnStartDownload", d))
              IN IF IsInProgress(m1.items[d])
                   THEN MaybeCompleteDownload(m1, d)
                 ELSE IF DFails(IsCancelled(m1.items[d]))
                   THEN Abort(m1, "DCHECK(download->IsCancelled())")
                 ELSE UpdateEntry([m1 EXCEPT !.in_progress = Erase(@, download_id),
                                             !.active = Erase(@, download_id)], d))

\* entries: the replayed entries' persisted states, in start-time order.
OnQueryDownloadEntriesComplete(m, entries) ==
  LET Add(x, j) ==
        IF DFails(~Has(x.history, j))
          THEN Abort(x, "DCHECK(!ContainsKey(history_downloads_, download->db_handle()))")
          ELSE [x EXCEPT !.items = Put(@, ItemOfEntry(j), HistoryDownloadItem(j, entries[j])),
                         !.downloads = @ \cup {ItemOfEntry(j)},
                         !.history = Put(@, j, ItemOfEntry(j))]
      Loop[j \in 0 .. Len(entries)] ==
        IF j = 0 THEN m ELSE Then(Loop[j - 1], LAMBDA x : Add(x, j))
  IN Then(Loop[Len(entries)], NotifyModelChanged)

OnDownloadRenamedToFinalName(m, download_id, uniquifier) ==
  LET m0 == [m EXCEPT !.rename = @ \ {download_id}]
      d == GetDownloadItem(m0, download_id)
  IN IF d = NULL THEN m0
     ELSE LET old == m0.items[d].full_path
              final == IF old.base = "Unconfirmed"
                         THEN AppendNumberToPath(MkPath(old.dir, GeneratedName), uniquifier)
                         ELSE [old EXCEPT !.cr = FALSE]
              m1 == Call([m0 EXCEPT !.items[d].full_path = final], "CompleteDownload",
                         download_id)
          IN Then(Completed(m1, d),
                  LAMBDA x : IF HistoryGone(x) THEN NullHistory(x)
                             ELSE Call(x, "UpdateDownloadPath", d))

\* ----------------------------------------------------------------- removal
RemoveDownload(m, download_handle) ==
  IF ~Has(m.history, download_handle) THEN m
  ELSE IF HistoryGone(m) THEN NullHistory(m)
  ELSE LET download == m.history[download_handle]
           m1 == [Call(m, "RemoveEntry", download)
                    EXCEPT !.history = Erase(@, download_handle),
                           !.downloads = @ \ {download}]
       IN IF DFails(download \in m.downloads)
            THEN Abort(m1, "DCHECK_EQ(1, downloads_count)")
            ELSE [NotifyModelChanged(m1) EXCEPT !.items = Erase(@, download)]

\* DownloadItem::Remove: cancel, then leave the coordinator.
ItemRemove(m, d) ==
  LET h == m.items[d].db_handle
  IN Then(ItemCancel(m, d, TRUE), LAMBDA x : RemoveDownload(x, h))

\* DownloadItem::Delete: delete the file on disk, then Remove.
ItemDelete(m, d) == ItemRemove(Call(m, "DeleteDownloadedFile", d), d)

\* DownloadItem::DangerousDownloadValidated
DangerousDownloadValidated(m, d) ==
  MaybeCompleteDownload([m EXCEPT !.items[d].safety_state = "VALIDATED"], d)

\* The CHECK of AssertQueueStateConsistent that fails for d, "" when none.
AssertQueueStateConsistent(m, d) ==
  LET item == m.items[d]
  IN IF item.state = "REMOVING"
       THEN IF d \in m.downloads THEN "CHECK(!ContainsKey(downloads_, download))"
            ELSE IF Has(m.active, item.id)
              THEN "CHECK(!ContainsKey(active_downloads_, download->id()))"
            ELSE IF Has(m.in_progress, item.id)
              THEN "CHECK(!ContainsKey(in_progress_, download->id()))"
            ELSE IF Has(m.history, item.db_handle)
              THEN "CHECK(!ContainsKey(history_downloads_, download->db_handle()))"
            ELSE ""
     ELSE IF d \notin m.downloads THEN "CHECK(ContainsKey(downloads_, download))"
     ELSE IF item.db_handle # kUninitializedHandle /\ ~Has(m.history, item.db_handle)
       THEN "CHECK(ContainsKey(history_downloads_, download->db_handle()))"
     ELSE IF item.db_handle = kUninitializedHandle /\ d \in Range(m.history)
       THEN "CHECK(it->second != download)"
     ELSE IF Has(m.active, item.id) # (item.state = "IN_PROGRESS")
       THEN "CHECK(ContainsKey(active_downloads_, id) == (state == IN_PROGRESS))"
     ELSE IF Has(m.in_progress, item.id) # (item.state = "IN_PROGRESS")
       THEN "CHECK(ContainsKey(in_progress_, id) == (state == IN_PROGRESS))"
     ELSE ""

\* The items RemoveDownloadsBetween selects; remove_end = 0 is the null time.
InRemovalRange(item, remove_begin, remove_end) ==
  /\ item.start_time >= remove_begin
  /\ (remove_end = 0 \/ item.start_time < remove_end)
  /\ (IsComplete(item) \/ IsCancelled(item) \/ IsInterrupted(item))

\* The observers are notified once for every Record removed.
RemoveDownloadsBetween_NotifyEach(m, remove_begin, remove_end) ==
  IF HistoryGone(m) THEN NullHistory(m)
  ELSE LET m0 == Call(m, "RemoveEntriesBetween", <<remove_begin, remove_end>>)
           chosen == {h \in DOMAIN m0.history :
                        InRemovalRange(m0.items[m0.history[h]], remove_begin, remove_end)}
           pending_deletes == {m0.history[h] : h \in chosen}
           failed == {AssertQueueStateConsistent(m0, d) : d \in pending_deletes} \ {""}
           Notify[n \in 0 .. Cardinality(pending_deletes)] ==
             IF n = 0
               THEN [m0 EXCEPT !.history = [h \in DOMAIN @ \ chosen |-> @[h]],
                               !.downloads = @ \ pending_deletes]
               ELSE NotifyModelChanged(Notify[n - 1])
       IN IF failed # {}
            THEN Abort(m0, CHOOSE c \in failed : TRUE)
          ELSE IF pending_deletes = {}
            THEN Call(m0, "return", 0)
          ELSE Call([Notify[Cardinality(pending_deletes)]
                     EXCEPT !.items = [d \in DOMAIN @ \ pending_deletes |-> @[d]]],
                    "return", Cardinality(pending_deletes))
RemoveDownloadsBetween(m, remove_begin, remove_end) ==
  IF HistoryGone(m) THEN NullHistory(m)
  ELSE LET m0 == Call(m, "RemoveEntriesBetween", <<remove_begin, remove_end>>)
           chosen == {h \in DOMAIN m0.history :
                        InRemovalRange(m0.items[m0.history[h]], remove_begin, remove_end)}
           pending_deletes == {m0.history[h] : h \in chosen}
           failed == {AssertQueueStateConsistent(m0, d) : d \in pending_deletes} \ {""}
       IN IF failed # {}
            THEN Abort(m0, CHOOSE c \in failed : TRUE)
          ELSE IF pending_deletes = {}
            THEN Call(m0, "return", 0)
          ELSE Call([NotifyModelChanged(
                       [m0 EXCEPT !.history = [h \in DOMAIN @ \ chosen |-> @[h]],
                                  !.downloads = @ \ pending_deletes])
                     EXCEPT !.items = [d \in DOMAIN @ \ pending_deletes |-> @[d]]],
                    "return", Cardinality(pending_deletes))

\* ---------------------------------------------------------------- save page
MaxSavePage == 1
SavePageItem == MaxDownloads + MaxHistory + 1 + pages_saved
\* The DownloadItem SavePackage constructs for the n-th page being saved.
NewSavePageItem(n) ==
  [NewDownloadItem(-(MaxHistory + n)) EXCEPT
     !.full_path = MkPath("default", "page.html"),
     !.start_time = MaxHistory + MaxDownloads + 1]

SavePageAsDownloadStarted(m, download) ==
  LET m1 == [m EXCEPT !.items = Put(@, download, NewSavePageItem(m.pages_saved)),
                      !.save_page = IF ndebug THEN @ ELSE @ \cup {download},
                      !.downloads = @ \cup {download}]
  IN Then(AddDownloadItemToHistory(m1, download, kUninitializedHandle),
          NotifyModelChanged)

\* ----------------------------------------------------------------- shutdown
\* AssertContainersConsistent (debug builds): every index within downloads_,
\* and downloads_ within their union.
ContainersConsistent(m) ==
  LET all == Range(m.active) \cup Range(m.history) \cup m.save_page
  IN all \subseteq m.downloads /\ m.downloads \subseteq all

RECURSIVE ShutdownLoop(_, _)
\* The loop over downloads_, in the set's (address) order.
ShutdownLoop(m, todo) ==
  IF todo = {} \/ ~Ok(m) THEN m
  ELSE LET d == CHOOSE x \in todo : \A y \in todo : x <= y
           m1 == IF m.items[d].safety_state = "DANGEROUS" /\ IsPartialDownload(m.items[d])
                   THEN ItemDelete(m, d)
                 ELSE IF IsPartialDownload(m.items[d])
                   THEN UpdateEntry(ItemCancel(m, d, FALSE), d)
                 ELSE m
       IN ShutdownLoop(m1, todo \ {d})

\* Shutdown without the test of shutdown_needed_.
Shutdown_NoGuard(m) ==
  LET m1 == Call(Call([m EXCEPT !.shutdown_needed = FALSE], "ManagerGoingDown", 0),
                 "OnDownloadManagerShutdown", 0)
  IN IF DFails(ContainersConsistent(m1))
       THEN Abort(m1, "AssertContainersConsistent")
       ELSE Then(ShutdownLoop(m1, m1.downloads),
              LAMBDA x :
                [x EXCEPT !.items = [d \in DOMAIN @ \ x.downloads |-> @[d]],
                          !.downloads = {},
                          !.in_progress = EmptyMap,
                          !.active = EmptyMap,
                          !.history = EmptyMap,
                          !.save_page = {},
                          !.download_history = "null"])
Shutdown(m) ==
  IF ~m.shutdown_needed THEN m
  ELSE LET m1 == Call(Call([m EXCEPT !.shutdown_needed = FALSE], "ManagerGoingDown", 0),
                      "OnDownloadManagerShutdown", 0)
       IN IF DFails(ContainersConsistent(m1))
            THEN Abort(m1, "AssertContainersConsistent")
            ELSE Then(ShutdownLoop(m1, m1.downloads),
                   LAMBDA x :
                     [x EXCEPT !.items = [d \in DOMAIN @ \ x.downloads |-> @[d]],
                               !.downloads = {},
                               !.in_progress = EmptyMap,
                               !.active = EmptyMap,
                               !.history = EmptyMap,
                               !.save_page = {},
                               !.download_history = "null"])

\* DownloadManager::Init
ManagerInit(m) ==
  IF DFails(~m.shutdown_needed)
    THEN Abort(m, "DCHECK(!shutdown_needed_)")
    ELSE Call([m EXCEPT !.shutdown_needed = TRUE, !.download_history = "live"],
              "Load", 0)

\* ------------------------------------------------------------------ actions
Init ==
  /\ ndebug \in BOOLEAN
  /\ aborted = ""
  /\ profile_ = "NULL"
  /\ shutdown_needed_ = FALSE
  /\ download_history_ = "null"
  /\ items = EmptyMap
  /\ downloads_ = {}
  /\ active_downloads_ = EmptyMap
  /\ in_progress_ = EmptyMap
  /\ history_downloads_ = EmptyMap
  /\ save_page_as_downloads_ = {}
  /\ next_fake_db_handle_ = FirstFakeDbHandle
  /\ last_download_path_ = ""
  /\ pipe = [id \in Ids |-> "none"]
  /\ info = [id \in Ids |-> DefaultInfo]
  /\ journal = {}
  /\ rename_pending = {}
  /\ query_pending = FALSE
  /\ files = {}
  /\ completing = [id \in Ids |-> 0]
  /\ next_id = 1
  /\ pages_saved = 0
  /\ response_sent = {}
  /\ tries = [id \in Ids |-> 0]

\* The process runs, and Init(profile) has been called.
Running == aborted = "" /\ profile_ # "NULL"
Created == 1 .. (next_id - 1)

DoInit ==
  /\ aborted = "" /\ profile_ = "NULL"
  /\ Set([ManagerInit(Cur) EXCEPT !.profile = "profile", !.query_pending = TRUE])

DoShutdown ==
  /\ aborted = ""
  /\ Set(Shutdown(Cur))

DoOnQueryDownloadEntriesComplete ==
  /\ Running /\ query_pending
  /\ Set(OnQueryDownloadEntriesComplete([Cur EXCEPT !.query_pending = FALSE],
                                        [j \in Entries |-> "COMPLETE"]))

DoCreateDownloadItem ==
  /\ Running /\ next_id <= MaxDownloads
  /\ Set(Then(CreateDownloadItem([Cur EXCEPT !.next_id = @ + 1], next_id),
              LAMBDA x : Post(x, next_id, "StartDownload", DefaultInfo)))

DoStartDownload(id) ==
  /\ Running /\ pipe[id] = "StartDownload"
  /\ Set(StartDownload(Cur, id))

DoCheckDownloadUrlDone(id) ==
  /\ Running /\ pipe[id] = "CheckDownloadUrlDone"
  /\ \E is_dangerous_url \in BOOLEAN : Set(CheckDownloadUrlDone(Cur, id, is_dangerous_url))

\* is_dangerous_url comes from the item's state_info; the other fields of the
\* request are read here for the first time.
DoCheckVisitedReferrerBeforeDone(id) ==
  /\ Running /\ pipe[id] = "CheckVisitedReferrerBeforeDone"
  /\ LET d == IF Has(active_downloads_, id) THEN active_downloads_[id] ELSE NULL
         url == IF d \in DOMAIN items THEN items[d].is_dangerous ELSE FALSE
     IN \E st \in Resolutions[url, last_download_path_] :
          Set(CheckVisitedReferrerBeforeDone(Cur, id, st))

\* On the FILE thread.  The loop that draws a random name for a dangerous
\* download ends with a name that does not exist.
DoCheckIfSuggestedPathExists(id) ==
  /\ Running /\ pipe[id] = "CheckIfSuggestedPathExists"
  /\ \E writable \in BOOLEAN, rand \in 0 .. MaxRand :
       LET r == ProbePath(info[id], writable, rand, files)
       IN /\ IsDangerous(r.state) => r.state.suggested_path \notin files
          /\ Set(Post([Cur EXCEPT !.files = r.files], id, "OnPathExistenceAvailable",
                      r.state))

DoOnPathExistenceAvailable(id) ==
  /\ Running /\ pipe[id] = "OnPathExistenceAvailable"
  /\ Set(OnPathExistenceAvailable(Cur, id, info[id]))

DoFileSelected(id) ==
  /\ Running /\ pipe[id] = "dialog"
  /\ Set(FileSelected(Cur, id, ChosenPath))

DoFileSelectionCanceled(id) ==
  /\ Running /\ pipe[id] = "dialog"
  /\ Set(FileSelectionCanceled(Cur, id))

DoUpdateDownload(id) ==
  /\ Running /\ id \in Created
  /\ \E size \in Sizes : \E m \in UpdateDownloadOutcomes(Cur, id, size) : Set(m)

DoOnResponseCompleted(id) ==
  /\ Running /\ id \in Created /\ id \notin response_sent
  /\ \E size \in Sizes, os_error \in Errors :
       Set(OnResponseCompleted([Cur EXCEPT !.response_sent = @ \cup {id}],
                               id, size, os_error))

\* The journal answers AddEntry with the next handle, or with the sentinel
\* when the database is offline.
DoOnCreateDownloadEntryComplete(id) ==
  /\ Running /\ id \in journal
  /\ \/ Set(OnCreateDownloadEntryComplete(Cur, id, JournalHandle(id)))
     \/ Set(OnCreateDownloadEntryComplete(Cur, id, kUninitializedHandle))

DoOnDownloadRenamedToFinalName(id) ==
  /\ Running /\ id \in rename_pending
  /\ Set(OnDownloadRenamedToFinalName(Cur, id, 0))

\* The user cancels, removes or validates a download through its item.
DoCancel(d) ==
  /\ Running /\ d \in downloads_
  /\ Set(ItemCancel(Cur, d, TRUE))

DoRemove(d) ==
  /\ Running /\ d \in Range(history_downloads_)
  /\ Set(ItemRemove(Cur, d))

DoDangerousDownloadValidated(d) ==
  /\ Running /\ d \in Range(history_downloads_)
  /\ items[d].safety_state = "DANGEROUS"
  /\ Set(DangerousDownloadValidated(Cur, d))

\* The times a removal range is drawn from: 0 (as remove_end, the null time),
\* the start times of the replayed entries and that of the first download.
Times == 0 .. (MaxHistory + 1)

DoRemoveDownloadsBetween ==
  /\ Running
  /\ \E remove_begin \in Times, remove_end \in Times :
       /\ remove_end = 0 \/ remove_begin < remove_end
       /\ Set(RemoveDownloadsBetween(Cur, remove_begin, remove_end))

DoSavePageAsDownloadStarted ==
  /\ Running /\ pages_saved < MaxSavePage
  /\ Set(SavePageAsDownloadStarted([Cur EXCEPT !.pages_saved = @ + 1], SavePageItem))

Next ==
  \/ DoInit
  \/ DoShutdown
  \/ DoOnQueryDownloadEntriesComplete
  \/ DoCreateDownloadItem
  \/ \E id \in Ids : DoStartDownload(id)
  \/ \E id \in Ids : DoCheckDownloadUrlDone(id)
  \/ \E id \in Ids : DoCheckVisitedReferrerBeforeDone(id)
  \/ \E id \in Ids : DoCheckIfSuggestedPathExists(id)
  \/ \E id \in Ids : DoOnPathExistenceAvailable(id)
  \/ \E id \in Ids : DoFileSelected(id)
  \/ \E id \in Ids : DoFileSelectionCanceled(id)
  \/ \E id \in Ids : DoUpdateDownload(id)
  \/ \E id \in Ids : DoOnResponseCompleted(id)
  \/ \E id \in Ids : DoOnCreateDownloadEntryComplete(id)
  \/ \E id \in Ids : DoOnDownloadRenamedToFinalName(id)
  \/ \E d \in downloads_ : DoCancel(d)
  \/ \E d \in downloads_ : DoRemove(d)
  \/ \E d \in downloads_ : DoDangerousDownloadValidated(d)
  \/ DoRemoveDownloadsBetween
  \/ DoSavePageAsDownloadStarted

Spec == Init /\ [][Next]_vars

\* The journal callback, like every task posted to the UI thread, is
\* eventually run.
LiveSpec == Spec /\ \A id \in Ids : WF_vars(DoOnCreateDownloadEntryComplete(id))

\* The callbacks of one download, of which one at a time is due: the tasks
\* posted to the UI and FILE threads, the answers of the safe-browsing client
\* and of the history service, and the answer of the save dialog, which the
\* user confirms or cancels.
DoCallback(id) ==
  \/ DoStartDownload(id)
  \/ DoCheckDownloadUrlDone(id)
  \/ DoCheckVisitedReferrerBeforeDone(id)
  \/ DoCheckIfSuggestedPathExists(id)
  \/ DoOnPathExistenceAvailable(id)
  \/ DoFileSelected(id)
  \/ DoFileSelectionCanceled(id)
  \/ DoOnCreateDownloadEntryComplete(id)
  \/ DoOnDownloadRenamedToFinalName(id)

\* The life of the downloads from their creation on, without the removal of
\* Records, saved pages and Shutdown, which the user may never ask for.
DownloadNext ==
  \/ DoInit
  \/ DoOnQueryDownloadEntriesComplete
  \/ DoCreateDownloadItem
  \/ \E id \in Ids : DoCallback(id)
  \/ \E id \in Ids : DoUpdateDownload(id)
  \/ \E id \in Ids : DoOnResponseCompleted(id)
  \/ \E d \in downloads_ : DoCancel(d)
  \/ \E d \in downloads_ : DoDangerousDownloadValidated(d)

\* Every callback that is due is eventually run.
CallbackSpec ==
  /\ Init /\ [][DownloadNext]_vars
  /\ WF_vars(DoOnQueryDownloadEntriesComplete)
  /\ \A id \in Ids : WF_vars(DoCallback(id))

\* The network layer is not bound to one completion event per download:
\* OnResponseCompleted can be called again for an id it has completed.
DoOnResponseCompletedAgain(id) ==
  /\ Running /\ id \in Created /\ id \in response_sent
  /\ \E size \in Sizes, os_error \in Errors :
       Set(OnResponseCompleted(Cur, id, size, os_error))

RepeatNext ==
  \/ Next
  \/ \E id \in Ids : DoOnResponseCompletedAgain(id)

RepeatSpec == Init /\ [][RepeatNext]_vars

\* ------------------------------------------------- the prober, by itself
\* Path resolution of several requests with nothing else of the coordinator:
\* the resolver on the UI thread, the prober on the FILE thread (one probe at
\* a time), and the final rename of a download that needed no dialog.  pipe,
\* info and files are as above, over the requests; the file system starts
\* with any of the files the generated name can collide with.
MaxRequests == 2
Requests == 1 .. MaxRequests
InitialFiles ==
  {AppendNumberToPath(MkPath("default", GeneratedName), n) : n \in 0 .. MaxUniqueFiles}

ProberInit ==
  /\ ndebug = TRUE
  /\ aborted = ""
  /\ profile_ = "profile"
  /\ shutdown_needed_ = TRUE
  /\ download_history_ = "live"
  /\ items = EmptyMap
  /\ downloads_ = {}
  /\ active_downloads_ = EmptyMap
  /\ in_progress_ = EmptyMap
  /\ history_downloads_ = EmptyMap
  /\ save_page_as_downloads_ = {}
  /\ next_fake_db_handle_ = FirstFakeDbHandle
  /\ last_download_path_ \in {"", "user"}
  /\ pipe = [id \in Requests |-> "none"]
  /\ info = [id \in Requests |-> DefaultInfo]
  /\ journal = {}
  /\ rename_pending = {}
  /\ query_pending = FALSE
  /\ files \in SUBSET InitialFiles
  /\ completing = [id \in Ids |-> 0]
  /\ next_id = 1
  /\ pages_saved = 0
  /\ response_sent = {}
  /\ tries = [id \in Requests |-> 0]

\* What the prober and the resolver leave alone.
ProberFrame ==
  UNCHANGED <<ndebug, aborted, profile_, shutdown_needed_, download_history_, items,
              downloads_, active_downloads_, in_progress_, history_downloads_,
              save_page_as_downloads_, next_fake_db_handle_, last_download_path_,
              journal, rename_pending, query_pending, completing, next_id,
              pages_saved, response_sent, tries>>

\* CheckVisitedReferrerBeforeDone resolves the request and posts the probe.
ResolveRequest(id) ==
  /\ pipe[id] = "none"
  /\ \E url \in BOOLEAN : \E st \in Resolutions[url, last_download_path_] :
       info' = [info EXCEPT ![id] = st]
  /\ pipe' = [pipe EXCEPT ![id] = "CheckIfSuggestedPathExists"]
  /\ UNCHANGED files
  /\ ProberFrame

\* CheckIfSuggestedPathExists, on the FILE thread.
CheckIfSuggestedPathExists(id) ==
  /\ pipe[id] = "CheckIfSuggestedPathExists"
  /\ \E writable \in BOOLEAN, rand \in 0 .. MaxRand :
       LET r == ProbePath(info[id], writable, rand, files)
       IN /\ IsDangerous(r.state) => r.state.suggested_path \notin files
          /\ info' = [info EXCEPT ![id] = r.state]
          /\ files' = r.files
  /\ pipe' = [pipe EXCEPT ![id] = "OnPathExistenceAvailable"]
  /\ ProberFrame

\* A safe download that needed no dialog completes: its in-progress file is
\* renamed to the resolved path.
RenameToFinalName(id) ==
  /\ pipe[id] = "OnPathExistenceAvailable"
  /\ ~info[id].prompt /\ ~IsDangerous(info[id])
  /\ files' = (files \ {GetCrDownloadPath(info[id].suggested_path)})
                \cup {info[id].suggested_path}
  /\ pipe' = [pipe EXCEPT ![id] = "complete"]
  /\ UNCHANGED info
  /\ ProberFrame

ProberNext ==
  \/ \E id \in Requests : ResolveRequest(id)
  \/ \E id \in Requests : CheckIfSuggestedPathExists(id)
  \/ \E id \in Requests : RenameToFinalName(id)

ProberSpec == ProberInit /\ [][ProberNext]_vars

\* ------------------------------------------ the prober's loop, step by step
\* The loop of CheckIfSuggestedPathExists that draws the temporary name of a
\* dangerous download, one iteration at a time; `tries` counts the
\* iterations of the running probe that found their name taken.
MaxTries == 2
MaxGarbage == 1

\* The number that stands for the name an iteration prints.  The first
\* iteration prints the prefix and the number drawn.  The call
\* unconfirmed_prefix.append(" %d.crdownload") lengthens the prefix itself,
\* so from the second iteration on the format holds more conversions than
\* there are arguments; what is printed for the missing ones is undefined,
\* `garbage` stands for it, and the name is none that a first iteration
\* prints.
UnconfirmedNumber(n, rand, garbage) ==
  IF n = 0 THEN rand
  ELSE (MaxRand + 1) * (1 + garbage + (MaxGarbage + 1) * (n - 1)) + rand

\* The temporary names a first iteration can print in the default directory.
UnconfirmedFiles == {UnconfirmedPath("default", k) : k \in 0 .. MaxRand}

NamingInit ==
  /\ ndebug = TRUE
  /\ aborted = ""
  /\ profile_ = "profile"
  /\ shutdown_needed_ = TRUE
  /\ download_history_ = "live"
  /\ items = EmptyMap
  /\ downloads_ = {}
  /\ active_downloads_ = EmptyMap
  /\ in_progress_ = EmptyMap
  /\ history_downloads_ = EmptyMap
  /\ save_page_as_downloads_ = {}
  /\ next_fake_db_handle_ = FirstFakeDbHandle
  /\ last_download_path_ = ""
  /\ pipe = [id \in Requests |-> "none"]
  /\ info = [id \in Requests |-> DefaultInfo]
  /\ journal = {}
  /\ rename_pending = {}
  /\ query_pending = FALSE
  /\ files \in SUBSET UnconfirmedFiles
  /\ completing = [id \in Ids |-> 0]
  /\ next_id = 1
  /\ pages_saved = 0
  /\ response_sent = {}
  /\ tries = [id \in Requests |-> 0]

\* What an iteration of the loop leaves alone.
NamingFrame ==
  UNCHANGED <<ndebug, aborted, profile_, shutdown_needed_, download_history_, items,
              downloads_, active_downloads_, in_progress_, history_downloads_,
              save_page_as_downloads_, next_fake_db_handle_, last_download_path_,
              journal, rename_pending, query_pending, completing, next_id,
              pages_saved, response_sent>>

\* The FILE thread runs one probe at a time.
FileThreadFree(id) == \A r \in Requests \ {id} : tries[r] = 0

\* An iteration draws a name that exists: path is emptied and the loop goes
\* round again.
NameTaken(id) ==
  /\ pipe[id] = "CheckIfSuggestedPathExists" /\ IsDangerous(info[id])
  /\ FileThreadFree(id) /\ tries[id] < MaxTries
  /\ \E rand \in 0 .. MaxRand, garbage \in 0 .. MaxGarbage :
       UnconfirmedPath(info[id].suggested_path.dir,
                       UnconfirmedNumber(tries[id], rand, garbage)) \in files
  /\ tries' = [tries EXCEPT ![id] = @ + 1]
  /\ UNCHANGED <<pipe, info, files>>
  /\ NamingFrame

\* An iteration takes whatever name it draws.
NameFree_Unchecked(id) ==
  /\ pipe[id] = "CheckIfSuggestedPathExists" /\ IsDangerous(info[id])
  /\ FileThreadFree(id)
  /\ \E writable \in BOOLEAN, rand \in 0 .. MaxRand, garbage \in 0 .. MaxGarbage :
       LET r == ProbePath(info[id], writable,
                          UnconfirmedNumber(tries[id], rand, garbage), files)
       IN /\ info' = [info EXCEPT ![id] = r.state]
          /\ files' = r.files
  /\ pipe' = [pipe EXCEPT ![id] = "OnPathExistenceAvailable"]
  /\ tries' = [tries EXCEPT ![id] = 0]
  /\ NamingFrame

\* An iteration draws a name that does not exist: the loop ends, and the rest
\* of CheckIfSuggestedPathExists runs (the writability of the directory was
\* looked up before the loop and is used only after it).
NameFree(id) ==
  /\ pipe[id] = "CheckIfSuggestedPathExists" /\ IsDangerous(info[id])
  /\ FileThreadFree(id)
  /\ \E writable \in BOOLEAN, rand \in 0 .. MaxRand, garbage \in 0 .. MaxGarbage :
       LET r == ProbePath(info[id], writable,
                          UnconfirmedNumber(tries[id], rand, garbage), files)
       IN /\ r.state.suggested_path \notin files
          /\ info' = [info EXCEPT ![id] = r.state]
          /\ files' = r.files
  /\ pipe' = [pipe EXCEPT ![id] = "OnPathExistenceAvailable"]
  /\ tries' = [tries EXCEPT ![id] = 0]
  /\ NamingFrame

\* The probe of a safe download has no loop.
ProbeSafe(id) ==
  /\ ~IsDangerous(info[id]) /\ FileThreadFree(id)
  /\ CheckIfSuggestedPathExists(id)

NamingNext ==
  \/ \E id \in Requests : ResolveRequest(id)
  \/ \E id \in Requests : NameTaken(id)
  \/ \E id \in Requests : NameFree(id)
  \/ \E id \in Requests : ProbeSafe(id)

\* The FILE thread runs the probe posted to it, iteration after iteration,
\* and base::RandInt returns, sooner or later, a number whose name is free
\* when there is one.
NamingSpec ==
  /\ NamingInit /\ [][NamingNext]_vars
  /\ \A id \in Requests : WF_vars(NameTaken(id) \/ NameFree(id))
  /\ \A id \in Requests : WF_vars(NameFree(id))

\* -------------------------------------------------------------- properties
\* The names of the calls a handler made to its collaborators.
Names(m) == {m.calls[i][1] : i \in 1 .. Len(m.calls)}
\* The active index holds a Record under this id.
ActiveRecord(id) ==
  Has(active_downloads_, id) /\ active_downloads_[id] \in DOMAIN items
\* The Record of the network download id, which ItemOfId allocated.
Rec(id) == items[ItemOfId(id)]
FourConditions(d) ==
  /\ items[d].all_data_saved
  /\ items[d].safety_state # "DANGEROUS"
  /\ Has(active_downloads_, items[d].id)
  /\ items[d].db_handle # kUninitializedHandle

\* C1: MaybeCompleteDownload changes nothing for a Record that misses one of
\* the four conditions (all data saved, not DANGEROUS, in active_downloads_,
\* durable handle assigned), and a Record for which OnDownloadCompleting has
\* been called has all its data saved, is not DANGEROUS and has its handle.
C1_CompletionGuard ==
  /\ \A d \in DOMAIN items :
       ~FourConditions(d) => MaybeCompleteDownload(Cur, d) = Cur
  /\ \A id \in Ids :
       (completing[id] > 0 /\ ItemOfId(id) \in DOMAIN items) =>
         /\ Rec(id).all_data_saved
         /\ Rec(id).safety_state # "DANGEROUS"
         /\ Rec(id).db_handle # kUninitializedHandle
\* OnDownloadCompleting has been called for a Record that still exists.
C1_Witness ==
  \E id \in Ids : completing[id] > 0 /\ ItemOfId(id) \in DOMAIN items

\* A download that is active, not DANGEROUS, with all its data saved and no
\* durable handle yet.
Waiting(id) ==
  /\ ActiveRecord(id)
  /\ items[active_downloads_[id]].all_data_saved
  /\ items[active_downloads_[id]].safety_state # "DANGEROUS"
  /\ items[active_downloads_[id]].db_handle = kUninitializedHandle
C2_NotBeforeHandle ==
  \A id \in Ids :
    Waiting(id) => completing[id] = 0 /\ ~IsComplete(items[active_downloads_[id]])
C2_OnHandle ==
  \A id \in Ids :
    (Waiting(id) /\ IsInProgress(items[active_downloads_[id]])
       /\ DoOnCreateDownloadEntryComplete(id)) => completing'[id] > 0
C2_Settled(id) ==
  \/ completing[id] > 0
  \/ ~(ActiveRecord(id) /\ IsInProgress(items[active_downloads_[id]]))
C3_ActiveIffInProgress ==
  \A d \in downloads_ :
    /\ Has(active_downloads_, items[d].id) <=> IsInProgress(items[d])
    /\ Has(in_progress_, items[d].id) <=> IsInProgress(items[d])

\* C4: a Record of downloads_ is in history_downloads_ exactly when its
\* db_handle is not the sentinel, and then under that handle and no other.
C4_HistoryIffHandle ==
  \A d \in downloads_ :
    /\ d \in Range(history_downloads_) <=> items[d].db_handle # kUninitializedHandle
    /\ \A h \in DOMAIN history_downloads_ :
         history_downloads_[h] = d => h = items[d].db_handle
\* One Record with its handle in the map beside one still without a handle.
C4_Witness ==
  /\ \E d \in downloads_ : items[d].db_handle # kUninitializedHandle
                           /\ Has(history_downloads_, items[d].db_handle)
  /\ \E d \in downloads_ : items[d].db_handle = kUninitializedHandle

\* C5 as stated: the Records of the three indices are those of downloads_.
C5_IndicesCoverMaster ==
  Range(active_downloads_) \cup Range(history_downloads_) \cup save_page_as_downloads_
    = downloads_

C7_StaleCallbackNoOp ==
  \A id \in Ids :
    ~Has(active_downloads_, id) =>
      /\ pipe[id] = "StartDownload" => StartDownload(Cur, id) = Consume(Cur, id)
      /\ pipe[id] = "CheckDownloadUrlDone" =>
           \A url \in BOOLEAN : CheckDownloadUrlDone(Cur, id, url) = Consume(Cur, id)
      /\ pipe[id] = "CheckVisitedReferrerBeforeDone" =>
           CheckVisitedReferrerBeforeDone(Cur, id, DefaultInfo) = Consume(Cur, id)
      /\ pipe[id] = "OnPathExistenceAvailable" =>
           OnPathExistenceAvailable(Cur, id, info[id]) = Consume(Cur, id)
      /\ pipe[id] = "dialog" =>
           /\ FileSelected(Cur, id, ChosenPath) = Consume(Cur, id)
           /\ FileSelectionCanceled(Cur, id) = Consume(Cur, id)
      /\ id \in journal =>
           \A h \in {JournalHandle(id), kUninitializedHandle} :
             OnCreateDownloadEntryComplete(Cur, id, h)
               = [Cur EXCEPT !.journal = @ \ {id}]

\* C8 as stated: DownloadCancelled and OnDownloadError of a Record of the
\* active index leave it in neither active_downloads_ nor in_progress_.
C8_CancelLeavesActiveIndex ==
  \A id \in Ids :
    ActiveRecord(id) =>
      /\ ~Has(DownloadCancelled(Cur, id).active, id)
      /\ ~Has(DownloadCancelled(Cur, id).in_progress, id)
      /\ \A size \in Sizes :
           /\ ~Has(OnDownloadError(Cur, id, size, "ERR_FAILED").active, id)
           /\ ~Has(OnDownloadError(Cur, id, size, "ERR_FAILED").in_progress, id)

\* C9 as stated: DownloadCancelled of a Record of the active index issues
\* CancelRequest and the file-side CancelDownload, whatever point of its life
\* the Record is at.
C9_CancelReachesNetworkAndFile ==
  \A id \in Ids :
    ActiveRecord(id) =>
      {"CancelRequest", "CancelDownload"} \subseteq Names(DownloadCancelled(Cur, id))

\* C10 as stated: UpdateDownload sets the received bytes and issues one
\* UpdateEntry when id is in active_downloads_ and its Record is IN_PROGRESS,
\* and changes nothing and calls nothing otherwise.
C10_UpdateOnlyInProgress ==
  \A id \in Ids, size \in Sizes :
    \A after \in UpdateDownloadOutcomes(Cur, id, size) :
      IF ActiveRecord(id) /\ IsInProgress(items[active_downloads_[id]])
        THEN after = [Cur EXCEPT !.items[active_downloads_[id]].received_bytes = size,
                                 !.calls = <<<<"UpdateEntry", active_downloads_[id]>>>>]
        ELSE after = Cur

\* An IN_PROGRESS, SAFE Record of the active index with its durable handle,
\* whose completion event has not been delivered yet.
C11_Ready(id) ==
  /\ ActiveRecord(id)
  /\ id \notin response_sent
  /\ IsInProgress(items[active_downloads_[id]])
  /\ items[active_downloads_[id]].safety_state = "SAFE"
  /\ items[active_downloads_[id]].db_handle # kUninitializedHandle
\* C11: the completion event of a SAFE download that has its durable handle
\* takes the Record out of in_progress_ (MaybeCompleteDownload) and starts the
\* final rename; when the rename is answered the Record is COMPLETE and out
\* of active_downloads_ (DownloadCompleted), and it is still in
\* history_downloads_ under the same handle and in downloads_.
C11_SafeCompletion ==
  \A id \in Ids, size \in Sizes :
    C11_Ready(id) =>
      LET d == active_downloads_[id]
          h == items[d].db_handle
          a == OnAllDataSaved(Cur, id, size)
          b == IF id \in a.rename THEN OnDownloadRenamedToFinalName(a, id, 0) ELSE a
      IN /\ Ok(a) /\ Ok(b)
         /\ ~Has(a.in_progress, id)
         /\ IsComplete(b.items[d])
         /\ ~Has(b.active, id) /\ ~Has(b.in_progress, id)
         /\ Has(b.history, h) /\ b.history[h] = d /\ b.items[d].db_handle = h
         /\ d \in b.downloads
\* A SAFE download has been completed: OnDownloadCompleting was entered, the
\* Record is COMPLETE, out of the active index and in the durable index.
C11_Witness ==
  \E id \in Ids :
    /\ completing[id] > 0 /\ ItemOfId(id) \in downloads_
    /\ IsComplete(Rec(id)) /\ Rec(id).safety_state = "SAFE"
    /\ ~Has(active_downloads_, id) /\ ~Has(in_progress_, id)
    /\ Has(history_downloads_, Rec(id).db_handle)

\* C12 as stated: a second commit of the path, by ContinueDownloadWithPath or
\* through FileSelected, for a Record of the active index whose path has been
\* committed leaves the path of the first commit and issues no AddEntry.
C12_PathWrittenOnce ==
  \A id \in Ids :
    (ActiveRecord(id) /\ items[active_downloads_[id]].full_path # EmptyPath) =>
      LET d == active_downloads_[id]
          direct == ContinueDownloadWithPath(Cur, d, ChosenPath)
          selected == FileSelected(Cur, id, ChosenPath)
      IN /\ Ok(direct) /\ Ok(selected)
         /\ direct.items[d].full_path = items[d].full_path
         /\ selected.items[d].full_path = items[d].full_path
         /\ "AddEntry" \notin Names(direct) \cup Names(selected)

\* C13: OnPathExistenceAvailable for a Record of the active index whose
\* resolution requires prompting requests the dialog (ChooseDownloadPath) and
\* commits nothing; as long as the dialog is unanswered the Record has no
\* path, is not in in_progress_ and has had no AddEntry issued, and
\* FileSelected then commits the chosen path.  When no
\* prompting is required the same call commits the path, enters the Record in
\* in_progress_, issues AddEntry and requests no dialog.
C13_PromptSuspendsCommit ==
  /\ \A id \in Ids :
       (pipe[id] = "OnPathExistenceAvailable" /\ ActiveRecord(id)) =>
         LET d == active_downloads_[id]
             r == OnPathExistenceAvailable(Cur, id, info[id])
         IN /\ Ok(r)
            /\ IF info[id].prompt
                 THEN /\ "ChooseDownloadPath" \in Names(r)
                      /\ r.pipe[id] = "dialog"
                      /\ r.items[d].full_path = EmptyPath
                      /\ ~Has(r.in_progress, id)
                      /\ "AddEntry" \notin Names(r) /\ id \notin r.journal
                 ELSE /\ "ChooseDownloadPath" \notin Names(r)
                      /\ r.pipe[id] = "none"
                      /\ r.items[d].full_path # EmptyPath
                      /\ Has(r.in_progress, id) /\ r.in_progress[id] = d
                      /\ "AddEntry" \in Names(r) /\ id \in r.journal
  /\ \A id \in Ids :
       (pipe[id] = "dialog" /\ ItemOfId(id) \in DOMAIN items) =>
         /\ Rec(id).full_path = EmptyPath
         /\ ~Has(in_progress_, id)
         /\ id \notin journal
         /\ Rec(id).db_handle = kUninitializedHandle
  /\ \A id \in Ids :
       (pipe[id] = "dialog" /\ ActiveRecord(id)) =>
         LET d == active_downloads_[id]
             r == FileSelected(Cur, id, ChosenPath)
         IN /\ Ok(r)
            /\ r.items[d].full_path # EmptyPath
            /\ Has(r.in_progress, id) /\ "AddEntry" \in Names(r)
\* The dialog has been requested for a Record of the active index and is not
\* answered yet.
C13_Witness ==
  \E id \in Ids : pipe[id] = "dialog" /\ ActiveRecord(id) /\ Rec(id).prompt

\* C14: Shutdown of a coordinator whose Init has not run, or that has been
\* shut down before, changes no state and makes no call: no observer is
\* notified, no Record and no collaborator is touched.
C14_ShutdownIdempotent ==
  (aborted = "" /\ ~shutdown_needed_) => Shutdown(Cur) = Cur
\* The coordinator has been initialized and shut down, and a Record has been
\* created since: a second Shutdown finds state it could change.
C14_Witness ==
  /\ aborted = "" /\ profile_ # "NULL" /\ ~shutdown_needed_
  /\ download_history_ = "null" /\ downloads_ # {}

\* C15 as stated: once an initialized coordinator has been shut down,
\* downloads_, active_downloads_, in_progress_ and history_downloads_ are
\* empty, and they stay empty under every later callback or event.
C15_EmptyAfterShutdown ==
  (aborted = "" /\ profile_ # "NULL" /\ ~shutdown_needed_) =>
    /\ downloads_ = {}
    /\ active_downloads_ = EmptyMap
    /\ in_progress_ = EmptyMap
    /\ history_downloads_ = EmptyMap

\* The number of calls `name` a handler made with argument arg.
Count(m, name, arg) ==
  Cardinality({i \in 1 .. Len(m.calls) : m.calls[i] = <<name, arg>>})
\* C16 as stated: Shutdown of an initialized coordinator tells the observers
\* ManagerGoingDown once, as its first call; it deletes the file of every
\* DANGEROUS partial Record (Delete), cancels every other partial Record and
\* issues one UpdateEntry for it without deleting its file, and issues
\* neither for a Record that is not partial.
C16_ShutdownPerRecord ==
  shutdown_needed_ =>
    LET r == Shutdown(Cur)
        l == ShutdownLoop(Cur, downloads_)
    IN /\ Ok(r)
       /\ Count(r, "ManagerGoingDown", 0) = 1
       /\ r.calls[1] = <<"ManagerGoingDown", 0>>
       /\ \A d \in downloads_ :
            IF items[d].safety_state = "DANGEROUS" /\ IsPartialDownload(items[d])
              THEN Count(r, "DeleteDownloadedFile", d) = 1
            ELSE IF IsPartialDownload(items[d])
              THEN /\ IsCancelled(l.items[d])
                   /\ Count(r, "UpdateEntry", d) = 1
                   /\ Count(r, "DeleteDownloadedFile", d) = 0
            ELSE /\ Count(r, "UpdateEntry", d) = 0
                 /\ Count(r, "DeleteDownloadedFile", d) = 0
                 /\ l.items[d] = items[d]

\* C17 as stated: CreateDownloadItem on a coordinator that has been shut down
\* allocates no Record and leaves downloads_ and active_downloads_ unchanged,
\* and empty.
C17_CreateAfterShutdownNoOp ==
  (aborted = "" /\ profile_ # "NULL" /\ ~shutdown_needed_ /\ next_id \in Ids) =>
    LET r == CreateDownloadItem(Cur, next_id)
    IN /\ Ok(r)
       /\ r.items = items
       /\ r.downloads = downloads_ /\ r.downloads = {}
       /\ r.active = active_downloads_ /\ r.active = EmptyMap

\* An initialized coordinator that has been shut down.
ShutDown == aborted = "" /\ profile_ # "NULL" /\ ~shutdown_needed_
\* C18 as stated: on a coordinator that has been shut down, UpdateDownload,
\* OnResponseCompleted, RemoveDownload and RemoveDownloadsBetween change
\* nothing and fail on nothing, and a late classifier, prober or journal
\* callback does no more than consume its message; none of them calls a
\* collaborator.
C18_NoOpAfterShutdown ==
  ShutDown =>
    /\ \A id \in Ids, size \in Sizes :
         /\ \A after \in UpdateDownloadOutcomes(Cur, id, size) : after = Cur
         /\ \A os_error \in Errors : OnResponseCompleted(Cur, id, size, os_error) = Cur
    /\ \A h \in (-(MaxHistory + MaxDownloads + 2)) .. (MaxHistory + MaxDownloads) :
         RemoveDownload(Cur, h) = Cur
    /\ \A remove_begin \in Times, remove_end \in Times :
         LET r == RemoveDownloadsBetween(Cur, remove_begin, remove_end)
         IN Ok(r) /\ [r EXCEPT !.calls = <<>>] = Cur
                  /\ Names(r) \subseteq {"return"}
    /\ \A id \in Ids :
         /\ pipe[id] = "StartDownload" => StartDownload(Cur, id) = Consume(Cur, id)
         /\ pipe[id] = "CheckDownloadUrlDone" =>
              \A url \in BOOLEAN : CheckDownloadUrlDone(Cur, id, url) = Consume(Cur, id)
         /\ pipe[id] = "CheckVisitedReferrerBeforeDone" =>
              CheckVisitedReferrerBeforeDone(Cur, id, DefaultInfo) = Consume(Cur, id)
         /\ pipe[id] = "OnPathExistenceAvailable" =>
              OnPathExistenceAvailable(Cur, id, info[id]) = Consume(Cur, id)
         /\ id \in journal =>
              \A h \in {JournalHandle(id), kUninitializedHandle} :
                OnCreateDownloadEntryComplete(Cur, id, h)
                  = [Cur EXCEPT !.journal = @ \ {id}]

\* The handles a caller can pass: the journal's, the fake ones, the sentinel.
Handles == (-(MaxDownloads + MaxSavePage + 2)) .. (MaxHistory + MaxDownloads)
\* C19 as stated: RemoveDownload(handle) leaves the Record that
\* history_downloads_ holds under the handle in none of downloads_,
\* history_downloads_, active_downloads_ and in_progress_, whatever its
\* state, and changes nothing for a handle that is not in history_downloads_
\* (checked while the journal adapter is live).
C19_RemoveLeavesNoIndex ==
  (aborted = "" /\ download_history_ = "live") =>
    \A h \in Handles :
      LET r == RemoveDownload(Cur, h)
      IN IF Has(history_downloads_, h)
           THEN LET d == history_downloads_[h]
                IN /\ Ok(r)
                   /\ d \notin r.downloads
                   /\ d \notin Range(r.history)
                   /\ d \notin Range(r.active)
                   /\ d \notin Range(r.in_progress)
           ELSE r = Cur

\* The Records the claim selects: those of history_downloads_ that started in
\* [remove_begin, remove_end), a null remove_end (0) being unbounded, and are
\* COMPLETE, CANCELLED or INTERRUPTED.
C20_Selected(remove_begin, remove_end) ==
  {d \in Range(history_downloads_) :
     /\ remove_begin <= items[d].start_time
     /\ (remove_end = 0 \/ items[d].start_time < remove_end)
     /\ items[d].state \in {"COMPLETE", "CANCELLED", "INTERRUPTED"}}
\* C20 as stated: RemoveDownloadsBetween removes from history_downloads_ and downloads_
\* exactly the selected Records, leaves every other Record in all its
\* indices, and returns the number of Records removed.
C20_RemoveBetweenExact ==
  (aborted = "" /\ download_history_ = "live") =>
    \A remove_begin \in Times, remove_end \in Times :
      LET sel == C20_Selected(remove_begin, remove_end)
          r == RemoveDownloadsBetween(Cur, remove_begin, remove_end)
      IN /\ Ok(r)
         /\ r.downloads = downloads_ \ sel
         /\ r.history = [h \in {g \in DOMAIN history_downloads_ :
                                  history_downloads_[g] \notin sel}
                           |-> history_downloads_[h]]
         /\ r.active = active_downloads_
         /\ r.in_progress = in_progress_
         /\ \A d \in DOMAIN items \ sel : d \in DOMAIN r.items /\ r.items[d] = items[d]
         /\ r.calls[Len(r.calls)] = <<"return", Cardinality(sel)>>

\* The Records a call of RemoveDownloadsBetween took out of downloads_.
C21_Removed(r) == downloads_ \ r.downloads
\* C21 (amended): a call of RemoveDownloadsBetween notifies the observers
\* (ModelChanged) exactly once when it removes at least one Record, however
\* many it removes, and not at all when it removes none.
C21_OneNotificationPerBatch ==
  (aborted = "" /\ download_history_ = "live") =>
    \A remove_begin \in Times, remove_end \in Times :
      LET r == RemoveDownloadsBetween(Cur, remove_begin, remove_end)
      IN Count(r, "ModelChanged", 0) = IF C21_Removed(r) # {} THEN 1 ELSE 0
\* One call can remove two Records or more.
C21_Witness ==
  /\ aborted = "" /\ download_history_ = "live"
  /\ Cardinality(C21_Removed(RemoveDownloadsBetween(Cur, 0, 0))) >= 2
\* C21 as stated: every call of RemoveDownloadsBetween notifies the observers
\* exactly once.
C21_Original ==
  (aborted = "" /\ download_history_ = "live") =>
    \A remove_begin \in Times, remove_end \in Times :
      Count(RemoveDownloadsBetween(Cur, remove_begin, remove_end), "ModelChanged", 0) = 1

\* The prober has handed request id its resolution, for a generated name.
Probed(id) ==
  pipe[id] \in {"OnPathExistenceAvailable", "complete"} /\ ~info[id].force
\* C22 (amended): two requests for the generated name whose resolutions need
\* no prompting are handed different paths by the prober, whatever the order
\* of their steps, and no two completed safe downloads share a final path.
C22_DistinctResolvedPaths ==
  \A i \in Requests, j \in Requests :
    (i # j /\ Probed(i) /\ Probed(j) /\ ~info[i].prompt /\ ~info[j].prompt) =>
      info[i].suggested_path # info[j].suggested_path
\* Both requests are probed without prompting, in the same directory, and the
\* later one carries a suffix.
C22_Witness ==
  \E i \in Requests, j \in Requests :
    /\ i # j /\ Probed(i) /\ Probed(j) /\ ~info[i].prompt /\ ~info[j].prompt
    /\ info[i].suggested_path.dir = info[j].suggested_path.dir
    /\ info[i].suggested_path.base = GeneratedName
    /\ info[j].suggested_path.base = GeneratedName
    /\ info[i].suggested_path.uniq = 0 /\ info[j].suggested_path.uniq > 0
    /\ pipe[i] = "complete"
\* C22 as stated: any two requests for the generated name that resolve to
\* the same directory are handed different paths.
C22_Original ==
  \A i \in Requests, j \in Requests :
    (i # j /\ Probed(i) /\ Probed(j)
       /\ info[i].suggested_path.dir = info[j].suggested_path.dir) =>
      info[i].suggested_path # info[j].suggested_path

\* What the resolver leaves for a request with a forced file name: that name,
\* no verdict on the file and no uniquifier.
C23_ResolvedVerbatim(id) ==
  pipe[id] = "none" =>
    \A in \in ResolverInputs, url \in BOOLEAN, visited \in BOOLEAN :
      in.force =>
        LET st == ResolvePath(in, url, visited, last_download_path_)
        IN /\ st.force /\ st.suggested_path = ForcedPath
           /\ ~st.is_dangerous_file
           /\ st.path_uniquifier = 0
\* C23 (amended): for a forced file name the resolver returns that name and
\* evaluates no verdict on the file; the prober computes and appends no
\* uniquifier and writes no placeholder; and the path it hands on is the
\* forced name when the directory is writable and the URL is not dangerous,
\* that base name in the documents directory when the directory is not
\* writable, and an unconfirmed name when the URL is dangerous.
C23_ForcedName ==
  \A id \in Requests :
    /\ C23_ResolvedVerbatim(id)
    /\ (pipe[id] = "CheckIfSuggestedPathExists" /\ info[id].force) =>
         \A writable \in BOOLEAN, rand \in 0 .. MaxRand :
           LET r == ProbePath(info[id], writable, rand, files)
           IN /\ r.files = files
              /\ r.state.path_uniquifier = 0
              /\ r.state.is_dangerous_file = FALSE
              /\ IF info[id].is_dangerous_url
                   THEN r.state.suggested_path = UnconfirmedPath(ForcedPath.dir, rand)
                 ELSE IF writable
                   THEN r.state.suggested_path = ForcedPath
                 ELSE r.state.suggested_path = [ForcedPath EXCEPT !.dir = "docs"]
\* A forced name has been probed and handed on unchanged although a file of
\* that name exists.
C23_Witness ==
  \E id \in Requests :
    /\ pipe[id] = "OnPathExistenceAvailable" /\ info[id].force
    /\ info[id].suggested_path = ForcedPath
    /\ ForcedPath \in files
\* C23 as stated: for a forced file name the path the resolver returns and
\* the path the prober hands on are exactly that name, and no placeholder is
\* written.
C23_Original ==
  \A id \in Requests :
    /\ C23_ResolvedVerbatim(id)
    /\ (pipe[id] = "CheckIfSuggestedPathExists" /\ info[id].force) =>
         \A writable \in BOOLEAN, rand \in 0 .. MaxRand :
           LET r == ProbePath(info[id], writable, rand, files)
           IN r.files = files /\ r.state.suggested_path = ForcedPath

\* The resolver takes the request for an extension install.
IsExtensionInstall(in) == ~in.save_as /\ in.ext_mime
\* C24 (amended): for a request without a forced file name and without a
\* managed download directory, when the preference asks to prompt the
\* resolver sets the prompt flag, unless the request is an extension install
\* or ShouldOpenFileBasedOnExtension holds for the generated name (it has an
\* extension, that of no extension package, which is set to auto-open); in
\* those cases the flag is the request's save-as flag.
C24_PreferencePrompts ==
  \A id \in Requests :
    pipe[id] = "none" =>
      \A in \in ResolverInputs, url \in BOOLEAN, visited \in BOOLEAN :
        (in.pref_prompt /\ ~in.force /\ ~in.managed) =>
          LET st == ResolvePath(in, url, visited, last_download_path_)
          IN IF IsExtensionInstall(in) \/ ShouldOpenFileBasedOnExtension(in)
               THEN st.prompt = in.save_as
               ELSE st.prompt = TRUE
\* A request resolved with the prompt that only the preference asks for.
C24_Witness ==
  \E id \in Requests :
    /\ pipe[id] = "CheckIfSuggestedPathExists"
    /\ info[id].prompt
    /\ \E in \in ResolverInputs, url \in BOOLEAN, visited \in BOOLEAN :
         /\ in.pref_prompt /\ ~in.save_as /\ ~in.force /\ ~in.managed
         /\ info[id] = ResolvePath(in, url, visited, last_download_path_)
\* C24 as stated: when the preference asks to prompt, the resolver sets the
\* prompt flag unless the request is an extension install or the name's
\* extension is set to auto-open, and in those cases the preference causes
\* no prompting.
C24_Original ==
  \A id \in Requests :
    pipe[id] = "none" =>
      \A in \in ResolverInputs, url \in BOOLEAN, visited \in BOOLEAN :
        in.pref_prompt =>
          LET st == ResolvePath(in, url, visited, last_download_path_)
          IN IF IsExtensionInstall(in) \/ (in.has_ext /\ in.auto_open)
               THEN st.prompt => in.save_as
               ELSE st.prompt = TRUE

\* C25 (amended): for a request without a forced file name, a managed
\* download directory makes the resolver clear the prompt flag, whatever the
\* preference and the save-as flag; with a forced file name the flag is the
\* request's save-as flag.
C25_ManagedNeverPrompts ==
  \A id \in Requests :
    pipe[id] = "none" =>
      \A in \in ResolverInputs, url \in BOOLEAN, visited \in BOOLEAN :
        in.managed =>
          LET st == ResolvePath(in, url, visited, last_download_path_)
          IN st.prompt = (in.force /\ in.save_as)
\* A save-as request resolved without the prompt under a managed directory.
C25_Witness ==
  \E id \in Requests :
    /\ pipe[id] = "CheckIfSuggestedPathExists"
    /\ ~info[id].prompt
    /\ \E in \in ResolverInputs, url \in BOOLEAN, visited \in BOOLEAN :
         /\ in.managed /\ in.save_as /\ in.pref_prompt /\ ~in.force
         /\ info[id] = ResolvePath(in, url, visited, last_download_path_)
\* C25 as stated: a managed download directory makes the resolver clear the
\* prompt flag, whatever the preference, the save-as flag and the forced file
\* name.
C25_Original ==
  \A id \in Requests :
    pipe[id] = "none" =>
      \A in \in ResolverInputs, url \in BOOLEAN, visited \in BOOLEAN :
        in.managed => ~ResolvePath(in, url, visited, last_download_path_).prompt

\* The extension-install override of IsDangerousFile.
NotFromGallery(in) == IsExtensionInstall(in) /\ (~in.service \/ ~in.gallery)
\* C26 (amended): for a request without a forced file name the resolver's
\* dangerous-file verdict is false when the resolution asks for the prompt;
\* otherwise it is, for the Dangerous level, true unless the file is opened
\* by its extension and there was a user gesture; for AllowOnUserGesture,
\* true when there was no user gesture or the referrer was not visited before
\* and else the extension-install override; for the safe level, the
\* extension-install override.
C26_VerdictByLevel ==
  \A id \in Requests :
    pipe[id] = "none" =>
      \A in \in ResolverInputs, url \in BOOLEAN, visited \in BOOLEAN :
        ~in.force =>
          LET st == ResolvePath(in, url, visited, last_download_path_)
          IN st.is_dangerous_file =
               IF st.prompt THEN FALSE
               ELSE IF in.level = "Dangerous"
                 THEN ~(ShouldOpenFileBasedOnExtension(in) /\ in.gesture)
               ELSE IF in.level = "AllowOnUserGesture"
                 THEN ~in.gesture \/ ~visited \/ NotFromGallery(in)
               ELSE NotFromGallery(in)
\* A request of the middle level resolved dangerous for want of a gesture.
C26_Witness ==
  \E id \in Requests :
    /\ pipe[id] = "CheckIfSuggestedPathExists"
    /\ info[id].is_dangerous_file
    /\ \E in \in ResolverInputs, url \in BOOLEAN, visited \in BOOLEAN :
         /\ in.level = "AllowOnUserGesture" /\ ~in.gesture /\ ~in.force
         /\ ~IsExtensionInstall(in)
         /\ info[id] = ResolvePath(in, url, visited, last_download_path_)
\* C26 as stated: for a request without a forced file name the verdict is
\* true for the Dangerous level, for AllowOnUserGesture true exactly when
\* there was no user gesture or the referrer was not visited before, and for
\* the safe level false unless the extension-install override applies.
C26_Original ==
  \A id \in Requests :
    pipe[id] = "none" =>
      \A in \in ResolverInputs, url \in BOOLEAN, visited \in BOOLEAN :
        ~in.force =>
          LET st == ResolvePath(in, url, visited, last_download_path_)
          IN st.is_dangerous_file =
               IF in.level = "Dangerous" THEN TRUE
               ELSE IF in.level = "AllowOnUserGesture"
                 THEN ~in.gesture \/ ~visited
               ELSE NotFromGallery(in)

\* C27: an extension install without a forced file name that does not come
\* from the gallery, or for which there is no extension service, is resolved
\* with a true dangerous-file verdict, whatever its danger level, user
\* gesture, referrer visit and auto-open setting.
C27_GalleryOverride ==
  \A id \in Requests :
    pipe[id] = "none" =>
      \A in \in ResolverInputs, url \in BOOLEAN, visited \in BOOLEAN :
        (~in.force /\ NotFromGallery(in)) =>
          ResolvePath(in, url, visited, last_download_path_).is_dangerous_file

\* C28: probing a resolution whose directory is not writable gives a
\* resolution with the prompt flag set and with a suggested path in the user
\* documents directory under the original file name, for a safe and for a
\* dangerous download alike.
C28_UnwritableFallsBackToDocuments ==
  \A id \in Requests :
    pipe[id] = "CheckIfSuggestedPathExists" =>
      \A rand \in 0 .. MaxRand :
        LET r == ProbePath(info[id], FALSE, rand, files).state
        IN /\ r.prompt
           /\ r.suggested_path.dir = "docs"
           /\ r.suggested_path.base = info[id].suggested_path.base

\* The path the prober looks up: the resolved one, or the one in the documents
\* directory when the resolved directory is not writable.
C29_Probed(st, writable) ==
  IF writable THEN st.suggested_path
  ELSE [st.suggested_path EXCEPT !.dir = "docs"]
\* Neither the name with suffix n nor its in-progress variant exists.
C29_Free(p, n) ==
  /\ AppendNumberToPath(p, n) \notin files
  /\ GetCrDownloadPath(AppendNumberToPath(p, n)) \notin files
\* C29: for a safe download without a forced file name the prober takes the
\* lowest suffix n >= 0 for which neither the suffixed name nor its
\* in-progress variant exists: with n = 0 the path is left as it is, with
\* n > 0 the suffix is appended and path_uniquifier is stored as 0; when no
\* suffix within the probing range is free, path_uniquifier is -1, the path
\* is left as it is, the prompt flag is set and no file is written.
C29_LowestFreeSuffix ==
  \A id \in Requests :
    (pipe[id] = "CheckIfSuggestedPathExists"
       /\ ~IsDangerous(info[id]) /\ ~info[id].force) =>
      \A writable \in BOOLEAN, rand \in 0 .. MaxRand :
        LET r == ProbePath(info[id], writable, rand, files)
            p == C29_Probed(info[id], writable)
            free == {n \in 0 .. MaxUniqueFiles : C29_Free(p, n)}
        IN IF free # {}
             THEN \E n \in free :
                    /\ \A k \in free : n <= k
                    /\ r.state.suggested_path =
                         IF n = 0 THEN p ELSE AppendNumberToPath(p, n)
                    /\ r.state.path_uniquifier = 0
                    /\ r.state.prompt = (info[id].prompt \/ ~writable)
             ELSE /\ r.state.suggested_path = p
                  /\ r.state.path_uniquifier = -1
                  /\ r.state.prompt
                  /\ r.files = files
\* One request was given a suffix, another found no free one.
C29_Witness ==
  \E a \in Requests, b \in Requests :
    /\ pipe[a] = "OnPathExistenceAvailable" /\ pipe[b] = "OnPathExistenceAvailable"
    /\ ~IsDangerous(info[a]) /\ ~info[a].force
    /\ ~IsDangerous(info[b]) /\ ~info[b].force
    /\ info[a].suggested_path.uniq > 0 /\ info[a].path_uniquifier = 0
    /\ info[b].path_uniquifier = -1 /\ info[b].prompt

\* C30: the prober writes one empty file exactly when the resolution it hands
\* on asks for no prompt and the request carried no forced file name: at the
\* in-progress variant of the resolved path for a safe download, at the
\* resolved path itself for a dangerous one; otherwise the file system is
\* left as it was.
C30_PlaceholderWhenSettled ==
  \A id \in Requests :
    pipe[id] = "CheckIfSuggestedPathExists" =>
      \A writable \in BOOLEAN, rand \in 0 .. MaxRand :
        LET r == ProbePath(info[id], writable, rand, files)
            st == r.state
        IN (IsDangerous(st) => st.suggested_path \notin files) =>
             r.files =
               IF ~st.prompt /\ ~info[id].force
                 THEN IF IsDangerous(st)
                        THEN files \cup {st.suggested_path}
                        ELSE files \cup {GetCrDownloadPath(st.suggested_path)}
                 ELSE files
\* A dangerous download holds its resolved path and a safe one the
\* in-progress variant of its own.
C30_Witness ==
  \E a \in Requests, b \in Requests :
    /\ pipe[a] = "OnPathExistenceAvailable" /\ pipe[b] = "OnPathExistenceAvailable"
    /\ ~info[a].prompt /\ ~info[a].force /\ IsDangerous(info[a])
    /\ info[a].suggested_path \in files
    /\ ~info[b].prompt /\ ~info[b].force /\ ~IsDangerous(info[b])
    /\ GetCrDownloadPath(info[b].suggested_path) \in files
    /\ info[b].suggested_path \notin files

\* The probe of request id has ended with a temporary name.
C31_Named(id) ==
  /\ pipe[id] = "CheckIfSuggestedPathExists"
  /\ pipe'[id] = "OnPathExistenceAvailable"
  /\ IsDangerous(info[id])
C32_Success(os_error) == os_error = "OK" \/ os_error = "ERR_CONNECTION_CLOSED"
\* The collaborator calls and the effects that would start a download again.
C32_Reissued(r) ==
  \/ Names(r) \cap {"AddEntry", "CheckVisitedReferrerBefore", "ChooseDownloadPath",
                    "RenameInProgressDownloadFile", "OnStartDownload"} # {}
  \/ r.pipe # pipe \/ r.journal # journal \/ r.next_id # next_id
  \/ ~(DOMAIN r.items \subseteq DOMAIN items)
  \/ ~(r.downloads \subseteq downloads_)
  \/ ~(DOMAIN r.active \subseteq DOMAIN active_downloads_)
\* An active Record that is IN_PROGRESS and waits for its completion event.
C32_Live(id) ==
  /\ Has(active_downloads_, id)
  /\ active_downloads_[id] \in DOMAIN items
  /\ IsInProgress(items[active_downloads_[id]])
  /\ ~items[active_downloads_[id]].all_data_saved
\* C32: a completion event is taken for success exactly when its code is 0
\* or the connection-closed code: then no Record becomes INTERRUPTED and a
\* live Record has all its data, with the size stored; with any other code no
\* Record is marked as having all its data and a live Record becomes
\* INTERRUPTED with that code and the size stored.  In neither case is the
\* request issued again or a Record created.
C32_CompletionOrInterruption ==
  \A id \in Ids, size \in Sizes, os_error \in Errors :
    LET r == OnResponseCompleted(Cur, id, size, os_error)
    IN Running =>
         /\ ~C32_Reissued(r)
         /\ \A d \in DOMAIN items :
              IF C32_Success(os_error)
                THEN IsInterrupted(r.items[d]) = IsInterrupted(items[d])
                ELSE r.items[d].all_data_saved = items[d].all_data_saved
         /\ C32_Live(id) =>
              LET d == active_downloads_[id]
              IN /\ Ok(r)
                 /\ IF C32_Success(os_error)
                        THEN /\ r.items[d].all_data_saved
                             /\ r.items[d].received_bytes = size
                             /\ r.items[d].last_os_error = items[d].last_os_error
                        ELSE /\ IsInterrupted(r.items[d])
                             /\ r.items[d].last_os_error = os_error
                             /\ r.items[d].received_bytes = size
\* A Record has been interrupted by its completion event.
C32_Witness ==
  \E id \in Ids :
    /\ id \in response_sent /\ ItemOfId(id) \in DOMAIN items
    /\ IsInterrupted(Rec(id)) /\ Rec(id).last_os_error = "ERR_FAILED"
    /\ ~Rec(id).all_data_saved

\* The place of a step in the path resolution of a download.
C33_Rank(step) ==
  CASE step = "StartDownload" -> 1
    [] step = "CheckDownloadUrlDone" -> 2
    [] step = "CheckVisitedReferrerBeforeDone" -> 3
    [] step = "CheckIfSuggestedPathExists" -> 4
    [] step = "OnPathExistenceAvailable" -> 5
    [] step = "dialog" -> 6
    [] OTHER -> 0
\* The path of the download is set, or its AddEntry is issued, in this step.
C33_Commits(id) ==
  \/ /\ ItemOfId(id) \in DOMAIN items /\ ItemOfId(id) \in DOMAIN items'
     /\ items[ItemOfId(id)].full_path = EmptyPath
     /\ items'[ItemOfId(id)].full_path # EmptyPath
  \/ id \notin journal /\ id \in journal'
C34_CleanupWithoutJournal ==
  /\ \A id \in Ids :
       (Running /\ Has(in_progress_, id) /\ in_progress_[id] \in DOMAIN items) =>
         LET d == in_progress_[id]
             r == DownloadCancelled(Cur, id)
         IN /\ Ok(r)
            /\ Count(r, "CancelDownload", id) = 1
            /\ ("UpdateEntry" \in Names(r)) = (items[d].db_handle # kUninitializedHandle)
  /\ \A id \in Ids, size \in Sizes :
       (Running /\ Has(active_downloads_, id)
          /\ active_downloads_[id] \in DOMAIN items) =>
         LET d == active_downloads_[id]
             r == OnDownloadError(Cur, id, size, "ERR_FAILED")
         IN /\ Ok(r)
            /\ Count(r, "CancelDownload", id) = 1
            /\ ("UpdateEntry" \in Names(r)) = (items[d].db_handle # kUninitializedHandle)
\* A Record of in_progress_ that waits for its handle: its cancellation
\* cleans up the file with no UpdateEntry.
C34_Witness ==
  \E id \in Ids :
    /\ Running /\ Has(in_progress_, id) /\ in_progress_[id] \in DOMAIN items
    /\ items[in_progress_[id]].db_handle = kUninitializedHandle
    /\ "CancelDownload" \in Names(DownloadCancelled(Cur, id))
    /\ "UpdateEntry" \notin Names(DownloadCancelled(Cur, id))
    /\ "CancelDownload" \in Names(OnDownloadError(Cur, id, 1, "ERR_FAILED"))

\* The save dialog of the download was cancelled: its steps are over and no
\* path was committed.
C35_DialogCancelled(id) ==
  /\ pipe[id] = "none" /\ Rec(id).full_path = EmptyPath
  /\ IsInProgress(Rec(id))
\* A Record of the active index without durable handle that was cancelled or
\* interrupted.
C35_Stopped(id) ==
  /\ Running /\ ActiveRecord(id) /\ active_downloads_[id] = ItemOfId(id)
  /\ Rec(id).db_handle = kUninitializedHandle
  /\ IsCancelled(Rec(id)) \/ IsInterrupted(Rec(id)) \/ C35_DialogCancelled(id)
\* C35: when every callback that is due is eventually run, a Record that was
\* cancelled or interrupted before it has its durable handle is eventually
\* in neither active_downloads_ nor in_progress_, whichever way it was
\* cancelled.
C35_StoppedIsCleanedUp ==
  \A id \in Ids :
    C35_Stopped(id) ~> (~Has(active_downloads_, id) /\ ~Has(in_progress_, id))


\* C36: whenever the journal's create callback is due for a Record that is
\* still in active_downloads_ and no longer IN_PROGRESS, the Record is
\* CANCELLED, so that DCHECK(download->IsCancelled()) never fails.
C36_CallbackFindsCancelled ==
  /\ aborted # "DCHECK(download->IsCancelled())"
  /\ \A id \in Ids :
       (Running /\ id \in journal /\ ActiveRecord(id)
          /\ ~IsInProgress(items[active_downloads_[id]]))
         => IsCancelled(items[active_downloads_[id]])


\* C37: each Record passes the completion point at most once: over every
\* sequence of events OnDownloadCompleting is entered at most one time per
\* Record, and the assertion of MaybeCompleteDownload that the Record is in
\* in_progress_ never fails.
C37_CompletesAtMostOnce ==
  /\ \A id \in Ids : completing[id] <= 1
  /\ aborted # "DCHECK_EQ(1u, in_progress_.count(download->id()))"


\* C38: for every Record RemoveDownloadsBetween selects for purging, the
\* CHECKs of AssertQueueStateConsistent hold when it is examined: the Record
\* is in the master collection and in neither active_downloads_ nor
\* in_progress_.
C38_Purged(remove_begin, remove_end) ==
  {history_downloads_[h] : h \in
     {g \in DOMAIN history_downloads_ :
        InRemovalRange(items[history_downloads_[g]], remove_begin, remove_end)}}
C38_PurgedAreConsistent ==
  (Running /\ ~HistoryGone(Cur)) =>
    \A remove_begin \in Times, remove_end \in Times :
      (remove_end = 0 \/ remove_begin < remove_end) =>
        \A d \in C38_Purged(remove_begin, remove_end) :
          /\ AssertQueueStateConsistent(Cur, d) = ""
          /\ d \in downloads_
          /\ ~Has(active_downloads_, items[d].id)
          /\ ~Has(in_progress_, items[d].id)


\* The journal's create callback reports the sentinel for the Record of id:
\* x is the state AddDownloadItemToHistory leaves, r the one the whole
\* callback leaves, h the fake handle that was next.
C39_Substituted(id) ==
  LET d == active_downloads_[id]
      h == next_fake_db_handle_
      x == AddDownloadItemToHistory([Cur EXCEPT !.journal = @ \ {id}], d,
                                    kUninitializedHandle)
      r == OnCreateDownloadEntryComplete(Cur, id, kUninitializedHandle)
      ready == [r EXCEPT !.items[d].all_data_saved = TRUE,
                         !.items[d].safety_state = "SAFE"]
  IN /\ Ok(x)
     /\ h # kUninitializedHandle /\ x.items[d].db_handle = h
     /\ \A e \in DOMAIN items \ {d} : items[e].db_handle # h
     /\ x.next_fake # h
     /\ Has(x.history, h) /\ x.history[h] = d
     /\ r.aborted \in {"", "DCHECK(download->IsCancelled())"}
     /\ Ok(r) =>
          /\ r.items[d].db_handle = h
          /\ Has(r.history, h) /\ r.history[h] = d
          /\ IsInProgress(items[d]) =>
               IF items[d].all_data_saved /\ items[d].safety_state # "DANGEROUS"
                 THEN r.completing[id] = completing[id] + 1
                 ELSE IsDownloadReadyForCompletion(ready, d)
\* C39: when the journal's create callback reports the sentinel as the handle
\* of an active Record, the Record gets the next fake handle: a handle that
\* is not the sentinel and that no other Record has; the Record is in
\* history_downloads_ under it, and a Record still in progress completes as
\* with a handle of the journal: at once when its data are saved and it is
\* not dangerous, and otherwise as soon as they are.
C39_FakeHandleSubstituted ==
  \A id \in Ids :
    (Running /\ id \in journal /\ ActiveRecord(id)) => C39_Substituted(id)
\* A network download that got a fake handle beside another Record with a
\* fake handle, and passed the completion point.
C39_Witness ==
  \E id \in Ids :
    /\ ItemOfId(id) \in downloads_ /\ Rec(id).db_handle < kUninitializedHandle
    /\ history_downloads_[Rec(id).db_handle] = ItemOfId(id)
    /\ completing[id] = 1
    /\ \E e \in downloads_ \ {ItemOfId(id)} : items[e].db_handle < kUninitializedHandle


\* The step puts the Record of id into in_progress_.
C40_Enters(id) == ~Has(in_progress_, id) /\ Has(in_progress_', id)
\* C40: in every reachable state in_progress_ is a part of active_downloads_
\* and every entry of active_downloads_ is a Record of downloads_; a Record
\* enters in_progress_ only by the commit of its path, which finds the path
\* empty and leaves it set for good, so that the Record never enters twice.
C40_InProgressWithinActive ==
  /\ [](\A id \in DOMAIN in_progress_ :
          Has(active_downloads_, id) /\ active_downloads_[id] = in_progress_[id])
  /\ [](\A id \in DOMAIN active_downloads_ : active_downloads_[id] \in downloads_)
  /\ [][\A id \in Ids :
          /\ C40_Enters(id) =>
               /\ DoOnPathExistenceAvailable(id) \/ DoFileSelected(id)
               /\ Rec(id).full_path = EmptyPath
               /\ Rec(id)'.full_path # EmptyPath
          /\ (ItemOfId(id) \in DOMAIN items /\ ItemOfId(id) \in DOMAIN items'
                /\ Rec(id).full_path # EmptyPath) => Rec(id)'.full_path # EmptyPath]_vars

====
